---------------------------- MODULE Spec2Model ----------------------------
(***************************************************************************)
(* A model of the VLM gameplay harness: the action parser                  *)
(* (utils/parsing_utils.py), the quota retry helper of the Google adapter  *)
(* (llm_interface/api/google_interface.py), the per-step control loop      *)
(* with its timed key scheduler (run_llm_eval.py) and the provider         *)
(* adapters' generate (llm_interface/api).                                 *)
(*                                                                         *)
(* Text is modelled as a sequence of lexical tokens [k, s]: k is the kind  *)
(* of the token and s its spelling.  Kinds: "open" (<keys>), "close"       *)
(* (</keys>), "ws" (white space), "sym" (one of [ ] { } , :), "dq" (a      *)
(* string literal in double quotes, s its content), "sq" (the same in      *)
(* single quotes), "lit" (null, true, false or a number) and "txt"         *)
(* (any other prose).                                                      *)
(***************************************************************************)
EXTENDS Integers, Sequences, FiniteSets, TLC

VARIABLES
    \* ---- parse_actions called on its own
    response_text,      \* the argument of parse_actions
    parse_result,       \* what the call did: [exc, value]
    parse_pc,           \* "idle" | "call" | "returned"
    \* ---- GoogleInterface._generate_content_with_retry
    retry_pc,           \* "idle" | "call" | "sleep" | "returned" | "raised"
    attempt,            \* the loop variable of the for loop
    vendor_calls,       \* the errors/results of the vendor calls made so far
    sleeps,             \* the delays slept so far
    retry_out,          \* what the helper returned or raised
    max_retries,        \* the helper's argument max_retries
    \* ---- run_one_game: the control loop and its scheduler
    pc,                         \* where the loop is
    successful_api_calls,
    episode_count,
    step_count,
    game_ended_before_pause,
    game_ended,
    assistant_output_text,      \* response['output']
    actions,                    \* what parse_actions did: [exc, value]
    segment_idx,
    instant_actions,
    hold_actions,
    executed_actions,
    last_executed_actions,
    frame_history,              \* the frames of the episode's executed segments
    last_render_frames,         \* the frames of the step before, for the next message
    content_history,            \* the active message buffer
    full_content_history,       \* the archival log of messages
    run_error,                  \* the exception that ended the loop, "none" so far
    events,                     \* what the cycle did to the game surface, in order
    faults,                     \* surface calls that have failed so far
    visual_sections,            \* the prior-segment frames put into the message
    action_snapshots,           \* one entry per segment the cycle executed
    token_usage,                \* response['token_usage']
    gameplay_log,               \* the log entries of the logged steps
    current_scratchpad_text,    \* the scratchpad memory
    \* ---- one call of a provider adapter's generate
    provider,           \* the adapter: "openai", "anthropic", "google", ...
    adapter_pc,         \* "idle" | "start" | "call" | "returned" | "raised"
    adapter_in,         \* the stage exercised and its input
    adapter_out         \* what the stage built, returned or raised

parseVars == <<response_text, parse_result, parse_pc>>
retryVars == <<retry_pc, attempt, vendor_calls, sleeps, retry_out, max_retries>>
adapterVars == <<provider, adapter_pc, adapter_in, adapter_out>>
logVars   == <<visual_sections, action_snapshots, token_usage, gameplay_log,
               current_scratchpad_text>>
memVars   == <<frame_history, last_render_frames, content_history,
               full_content_history>>
ctlVars   == <<pc, successful_api_calls, episode_count, step_count,
               game_ended_before_pause, game_ended, assistant_output_text,
               actions, segment_idx, instant_actions, hold_actions,
               executed_actions, last_executed_actions, frame_history,
               last_render_frames, content_history, full_content_history,
               run_error, events, faults, visual_sections, action_snapshots,
               token_usage, gameplay_log, current_scratchpad_text>>

-----------------------------------------------------------------------------
(***************************************************************************)
(* Tokens and generic helpers                                              *)
(***************************************************************************)
Tok(k, s) == [k |-> k, s |-> s]

OPEN  == Tok("open", "<keys>")
CLOSE == Tok("close", "</keys>")
WS    == Tok("ws", " ")
LB    == Tok("sym", "[")
RB    == Tok("sym", "]")
LC    == Tok("sym", "{")
RC    == Tok("sym", "}")
COMMA == Tok("sym", ",")
COLON == Tok("sym", ":")

RECURSIVE Flatten(_)
Flatten(ss) == IF ss = <<>> THEN <<>> ELSE Head(ss) \o Flatten(Tail(ss))

RECURSIVE SelectToks(_, _)
SelectToks(s, kinds) ==
    IF s = <<>> THEN <<>>
    ELSE IF Head(s).k \in kinds THEN <<Head(s)>> \o SelectToks(Tail(s), kinds)
         ELSE SelectToks(Tail(s), kinds)

-----------------------------------------------------------------------------
(***************************************************************************)
(* utils/parsing_utils.py                                                  *)
(***************************************************************************)

\* Action codes.  An instant key is Key(code), a held key is Hold(code) (the
\* tuple ("HOLD", code)) and Python's None is the record None.
Key(c)  == [t |-> "key", c |-> c]
Hold(c) == [t |-> "HOLD", c |-> c]
None    == [t |-> "None", c |-> 0]

LetterCode ==
    [l \in {"A","B","C","D","E","F","G","H","I","J","K","L","M",
            "N","O","P","Q","R","S","T","U","V","W","X","Y","Z"} |->
        CASE l = "A" -> 65 [] l = "B" -> 66 [] l = "C" -> 67 [] l = "D" -> 68
          [] l = "E" -> 69 [] l = "F" -> 70 [] l = "G" -> 71 [] l = "H" -> 72
          [] l = "I" -> 73 [] l = "J" -> 74 [] l = "K" -> 75 [] l = "L" -> 76
          [] l = "M" -> 77 [] l = "N" -> 78 [] l = "O" -> 79 [] l = "P" -> 80
          [] l = "Q" -> 81 [] l = "R" -> 82 [] l = "S" -> 83 [] l = "T" -> 84
          [] l = "U" -> 85 [] l = "V" -> 86 [] l = "W" -> 87 [] l = "X" -> 88
          [] l = "Y" -> 89 [] l = "Z" -> 90]

NamedKeys ==
    [n \in {"UP","DOWN","LEFT","RIGHT","SPACE","ENTER","ESC","NOOP",
            "HOLD_UP","HOLD_DOWN","HOLD_LEFT","HOLD_RIGHT","HOLD_SPACE"} |->
        CASE n = "UP" -> Key(38)
          [] n = "DOWN" -> Key(40)
          [] n = "LEFT" -> Key(37)
          [] n = "RIGHT" -> Key(39)
          [] n = "SPACE" -> Key(32)
          [] n = "ENTER" -> Key(13)
          [] n = "ESC" -> Key(27)
          [] n = "NOOP" -> None
          [] n = "HOLD_UP" -> Hold(38)
          [] n = "HOLD_DOWN" -> Hold(40)
          [] n = "HOLD_LEFT" -> Hold(37)
          [] n = "HOLD_RIGHT" -> Hold(39)
          [] n = "HOLD_SPACE" -> Hold(32)]

KEY_MAPPING ==
    [n \in (DOMAIN NamedKeys) \cup (DOMAIN LetterCode) |->
        IF n \in DOMAIN NamedKeys THEN NamedKeys[n] ELSE Key(LetterCode[n])]

\* str.upper() on the spellings the model's texts use; a spelling without a
\* lower-case letter is its own upper case.
UpperTable ==
    [s \in {"up","Up","down","left","Left","right","space","enter","esc","Esc",
            "noop","Noop","r","q","a","hold_up","hold_left","Hold_Space",
            "hold_space","jump","hold_r","fire","True","False"} |->
        CASE s \in {"up","Up"} -> "UP"
          [] s = "down" -> "DOWN"
          [] s \in {"left","Left"} -> "LEFT"
          [] s = "right" -> "RIGHT"
          [] s = "space" -> "SPACE"
          [] s = "enter" -> "ENTER"
          [] s \in {"esc","Esc"} -> "ESC"
          [] s \in {"noop","Noop"} -> "NOOP"
          [] s = "r" -> "R"
          [] s = "q" -> "Q"
          [] s = "a" -> "A"
          [] s = "hold_up" -> "HOLD_UP"
          [] s = "hold_left" -> "HOLD_LEFT"
          [] s \in {"Hold_Space","hold_space"} -> "HOLD_SPACE"
          [] s = "jump" -> "JUMP"
          [] s = "hold_r" -> "HOLD_R"
          [] s = "fire" -> "FIRE"
          [] s = "True" -> "TRUE"
          [] s = "False" -> "FALSE"]

Upper(s) == IF s \in DOMAIN UpperTable THEN UpperTable[s] ELSE s

\* ---- JSON values, as json.loads builds them
JStr(s)      == [t |-> "str",  s |-> s,  items |-> <<>>]
JLit(s)      == [t |-> IF s = "null" THEN "NoneType"
                       ELSE IF s \in {"true", "false"} THEN "bool" ELSE "int",
                 s |-> s, items |-> <<>>]
JList(items) == [t |-> "list", s |-> "", items |-> items]
JDict(items) == [t |-> "dict", s |-> "", items |-> items]

JSONDecodeError == [ok |-> FALSE, val |-> JLit("null"), next |-> 0]
Parsed(v, n)    == [ok |-> TRUE, val |-> v, next |-> n]

\* The recursive-descent parser of json.loads over the tokens of the text,
\* white space removed.  ParseValue reads one value at position i;
\* ParseElems reads the elements of an array after its "[" (or after a
\* comma), ParseMembers the members of an object.
RECURSIVE ParseValue(_, _), ParseElems(_, _, _), ParseMembers(_, _, _)
ParseValue(toks, i) ==
    IF i > Len(toks) THEN JSONDecodeError
    ELSE LET tk == toks[i] IN
         CASE tk.k = "dq"  -> Parsed(JStr(tk.s), i + 1)
           [] tk.k = "lit" -> Parsed(JLit(tk.s), i + 1)
           [] tk = LB ->
                IF i + 1 <= Len(toks) /\ toks[i + 1] = RB
                THEN Parsed(JList(<<>>), i + 2)
                ELSE ParseElems(toks, i + 1, <<>>)
           [] tk = LC ->
                IF i + 1 <= Len(toks) /\ toks[i + 1] = RC
                THEN Parsed(JDict(<<>>), i + 2)
                ELSE ParseMembers(toks, i + 1, <<>>)
           [] OTHER -> JSONDecodeError

ParseElems(toks, i, acc) ==
    LET r == ParseValue(toks, i) IN
    IF ~r.ok \/ r.next > Len(toks) THEN JSONDecodeError
    ELSE IF toks[r.next] = RB THEN Parsed(JList(Append(acc, r.val)), r.next + 1)
    ELSE IF toks[r.next] = COMMA THEN ParseElems(toks, r.next + 1, Append(acc, r.val))
    ELSE JSONDecodeError

ParseMembers(toks, i, acc) ==
    IF i + 1 > Len(toks) \/ toks[i].k # "dq" \/ toks[i + 1] # COLON
    THEN JSONDecodeError
    ELSE LET r == ParseValue(toks, i + 2) IN
         IF ~r.ok \/ r.next > Len(toks) THEN JSONDecodeError
         ELSE IF toks[r.next] = RC
              THEN Parsed(JDict(Append(acc, r.val)), r.next + 1)
         ELSE IF toks[r.next] = COMMA
              THEN ParseMembers(toks, r.next + 1, Append(acc, r.val))
         ELSE JSONDecodeError

json_loads(s) ==
    LET toks == SelectToks(s, {"sym", "dq", "sq", "lit", "txt", "open", "close"})
        r    == ParseValue(toks, 1)
    IN  IF r.ok /\ r.next = Len(toks) + 1 THEN r ELSE JSONDecodeError


\* ---- parse_actions

\* The number of segments of a plan (parse_actions pads or cuts to it).
NumSegments == 5

Return(v) == [exc |-> "none", value |-> v]
Raise(e)  == [exc |-> e, value |-> <<>>]

EmptyPlan == [i \in 1..NumSegments |-> <<>>]

\* [[None]] * 5
NoopPlan == [i \in 1..NumSegments |-> <<None>>]

\* The first position >= from of a token of the given kind, 0 when none.
RECURSIVE FirstIdx(_, _, _)
FirstIdx(s, kind, from) ==
    IF from > Len(s) THEN 0
    ELSE IF s[from].k = kind THEN from
    ELSE FirstIdx(s, kind, from + 1)

\* re.search(r'<keys>(.*?)</keys>', response_text, re.DOTALL): the leftmost
\* opening tag that a closing tag follows, up to the nearest closing tag.
re_search(text) ==
    LET o == FirstIdx(text, "open", 1)
        c == IF o = 0 THEN 0 ELSE FirstIdx(text, "close", o + 1)
    IN  [found |-> c # 0,
         group1 |-> IF c = 0 THEN <<>> ELSE SubSeq(text, o + 1, c - 1)]

\* str.strip()
RECURSIVE LStrip(_), RStrip(_)
LStrip(s) == IF s # <<>> /\ Head(s).k = "ws" THEN LStrip(Tail(s)) ELSE s
RStrip(s) == IF s # <<>> /\ s[Len(s)].k = "ws"
             THEN RStrip(SubSeq(s, 1, Len(s) - 1)) ELSE s
strip(s) == RStrip(LStrip(s))

\* if "'" in actions_str and '"' not in actions_str:
\*     actions_str = actions_str.replace("'", '"')
HasQuote(s, q) == \E i \in 1..Len(s) : s[i].k = q
ReplaceQuotes(s) ==
    [i \in 1..Len(s) |-> IF s[i].k = "sq" THEN Tok("dq", s[i].s) ELSE s[i]]
NormalizeQuotes(s) ==
    IF HasQuote(s, "sq") /\ ~HasQuote(s, "dq") THEN ReplaceQuotes(s) ELSE s

\* Python truth value of a JSON value that is not a list.
Truthy(v) ==
    CASE v.t = "str"      -> v.s # ""
      [] v.t = "int"      -> v.s # "0"
      [] v.t = "bool"     -> v.s = "true"
      [] v.t = "NoneType" -> FALSE
      [] OTHER            -> v.items # <<>>

\* str(action_name): a list or a dict prints as a bracketed text, which is
\* no key of KEY_MAPPING.
Str(v) ==
    CASE v.t = "str"  -> v.s
      [] v.t = "int"  -> v.s
      [] v.t = "bool" -> IF v.s = "true" THEN "True" ELSE "False"
      [] v.t = "NoneType" -> "None"
      [] OTHER -> "[...]"

\* One pass of the inner loop: what an action name appends to parsed_segment.
ParseName(v) ==
    LET action_name == IF v.t = "NoneType" THEN "NOOP" ELSE Upper(Str(v)) IN
    IF action_name \in DOMAIN KEY_MAPPING THEN <<KEY_MAPPING[action_name]>>
    ELSE IF action_name = "NOOP" THEN <<None>>
    ELSE <<>>

\* if not isinstance(segment, list): segment = [segment] if segment else ["NOOP"]
AsList(segment) ==
    IF segment.t = "list" THEN segment.items
    ELSE IF Truthy(segment) THEN <<segment>>
    ELSE <<JStr("NOOP")>>

ParseSegment(segment) ==
    LET names == AsList(segment) IN
    Flatten([i \in 1..Len(names) |-> ParseName(names[i])])

\* if len(action_segments) != 5: pad with ["NOOP"] or cut to the first 5
PadFront(segs) ==
    IF Len(segs) < NumSegments
    THEN [i \in 1..(NumSegments - Len(segs)) |-> JList(<<JStr("NOOP")>>)] \o segs
    ELSE SubSeq(segs, Len(segs) - NumSegments + 1, Len(segs))

PadOrTruncate(segs) ==
    IF Len(segs) < NumSegments
    THEN segs \o [i \in 1..(NumSegments - Len(segs)) |-> JList(<<JStr("NOOP")>>)]
    ELSE SubSeq(segs, 1, NumSegments)

\* except json.JSONDecodeError: return [[None]] * 5
ExceptPropagates == Raise("JSONDecodeError")

ExceptJSONDecodeError == Return(NoopPlan)

\* if not isinstance(action_segments, list): return []
NotAList == Return(<<>>)

\* the else branch of "if match": return [[None]] * 5
NoKeysTag == Return(NoopPlan)

parse_actions(text) ==
    LET match == re_search(text) IN
    IF ~match.found THEN NoKeysTag
    ELSE LET actions_str == NormalizeQuotes(strip(match.group1))
             loaded == json_loads(actions_str)
         IN  IF ~loaded.ok THEN ExceptJSONDecodeError
             ELSE IF loaded.val.t # "list" THEN NotAList
             ELSE LET action_segments == PadOrTruncate(loaded.val.items) IN
                  Return([i \in 1..Len(action_segments) |->
                              ParseSegment(action_segments[i])])

-----------------------------------------------------------------------------
(***************************************************************************)
(* The texts a model may answer with.  A draft plan is a sequence of       *)
(* segments, a segment a sequence of item tokens; Render writes it out as  *)
(* the JSON text of the <keys> block.                                      *)
(***************************************************************************)
MaxSegments == 6     \* longest plan of the segment-count family
MaxTokens   == 2     \* longest segment of the token family

D(s) == Tok("dq", s)
L(s) == Tok("lit", s)

RECURSIVE JoinComma(_)
JoinComma(ss) ==
    IF ss = <<>> THEN <<>>
    ELSE IF Len(ss) = 1 THEN Head(ss)
    ELSE Head(ss) \o <<COMMA>> \o JoinComma(Tail(ss))

RenderList(parts) == <<LB>> \o JoinComma(parts) \o <<RB>>
RenderSegment(seg) == RenderList([i \in 1..Len(seg) |-> <<seg[i]>>])
RenderPlan(segs) == RenderList([i \in 1..Len(segs) |-> RenderSegment(segs[i])])

\* Quote styles: every string in single quotes, or only the first one.
SingleQuoted(s) == [i \in 1..Len(s) |-> IF s[i].k = "dq" THEN Tok("sq", s[i].s) ELSE s[i]]
MixedQuoted(s) ==
    LET f == FirstIdx(s, "dq", 1) IN
    [i \in 1..Len(s) |-> IF i = f THEN Tok("sq", s[i].s) ELSE s[i]]
Styled(s) == {s, SingleQuoted(s), MixedQuoted(s)}

InKeys(block) == <<OPEN>> \o block \o <<CLOSE>>
Prose == Tok("txt", "I will move up.")

SeqsUpTo(S, n) == UNION {[1..k -> S] : k \in 0..n}

\* Plans of 0..MaxSegments segments: what the segment count does.
CountSegments == {<<D("UP")>>, <<D("NOOP")>>, <<D("hold_left"), D("r")>>}
CountFamily == {InKeys(RenderPlan(p)) : p \in SeqsUpTo(CountSegments, MaxSegments)}

\* One segment of 0..MaxTokens items: what each name does.
Vocabulary ==
    {D("UP"), D("up"), D("Left"), D("NOOP"), D("noop"), D("HOLD_SPACE"),
     D("hold_up"), D("q"), D("ESC"), D("jump"), D("hold_r"), L("null"), L("5")}
TokenFamily ==
    UNION {UNION {Styled(InKeys(RenderPlan(<<seg>>))),
                  Styled(InKeys(RenderPlan(<<seg, <<D("DOWN")>>, seg>>)))}
           : seg \in SeqsUpTo(Vocabulary, MaxTokens)}

\* The examples of the parser's documentation.
ExampleFive ==
    InKeys(RenderPlan(<< <<D("UP")>>, <<D("LEFT"), D("RIGHT")>>, <<D("NOOP")>>,
                         <<D("HOLD_SPACE")>>, <<D("R")>> >>))
ExampleOne == InKeys(RenderPlan(<< <<D("UP")>> >>))
ExampleSix == InKeys(RenderPlan([i \in 1..6 |-> <<D("UP")>>]))
ExampleNoTags == <<Tok("txt", "no tags here")>>

\* Other shapes: no block, a broken block, JSON that is no list of lists.
ShapeFamily ==
    {ExampleFive, ExampleOne, ExampleSix, ExampleNoTags,
     <<>>,
     <<Prose, OPEN, LB, LB, D("UP"), RB, RB>>,                  \* tag never closed
     <<CLOSE, LB, LB, D("UP"), RB, RB, OPEN>>,                  \* tags in the wrong order
     InKeys(<<>>),                                              \* empty block
     InKeys(<<WS>>),
     InKeys(<<Prose>>),
     InKeys(<<LB, LB, D("UP"), RB>>),                           \* bracket missing
     InKeys(<<LB, LB, D("UP"), RB, COMMA, RB>>),                \* trailing comma
     InKeys(<<LB, LB, D("UP"), RB, RB, RB>>),
     InKeys(<<LB, LB, D("UP"), D("DOWN"), RB, RB>>),            \* comma missing
     InKeys(<<LB, LB, Tok("txt", "UP"), RB, RB>>),              \* bare word
     InKeys(<<OPEN, LB, LB, D("UP"), RB, RB>>),                 \* tag inside the block
     InKeys(<<LC, RC>>),
     InKeys(<<LC, D("keys"), COLON, LB, LB, D("UP"), RB, RB, RC>>),
     InKeys(<<LC, D("keys"), LB, RB, RC>>),
     InKeys(<<D("UP")>>),
     InKeys(<<Tok("sq", "UP")>>),
     InKeys(<<L("5")>>),
     InKeys(<<L("null")>>),
     InKeys(<<L("true")>>),
     InKeys(<<WS, LB, WS, LB, D("up"), WS, COMMA, D("hold_space"), RB, WS, RB, WS>>),
     InKeys(<<LB, D("UP"), COMMA, D("hold_up"), COMMA, D("jump"), RB>>),
     InKeys(<<LB, L("null"), COMMA, L("0"), COMMA, L("5"), COMMA, L("true"),
              COMMA, L("false"), COMMA, D("")>>  \o <<RB>>),
     InKeys(<<LB, LC, RC, COMMA, LC, D("a"), COLON, D("UP"), RC, COMMA, LB, RB,
              COMMA, LB, LB, D("UP"), RB, RB, COMMA, LB, L("true"), COMMA,
              L("false"), RB, RB>>),
     <<Prose>> \o InKeys(RenderPlan(<< <<D("a")>> >>)) \o <<Prose>>
         \o InKeys(RenderPlan(<< <<D("q")>> >>)),               \* two blocks
     <<Prose>> \o InKeys(<<LB>>) \o InKeys(RenderPlan(<< <<D("q")>> >>))}

ParseInputs == CountFamily \cup TokenFamily \cup ShapeFamily

-----------------------------------------------------------------------------
(***************************************************************************)
(* llm_interface/api/google_interface.py: the quota retry helper.          *)
(* An error message is the sequence of its characters.                     *)
(***************************************************************************)

\* str.lower() on one character.
LowerChar(c) ==
    CASE c = "A" -> "a"
      [] c = "E" -> "e"
      [] c = "I" -> "i"
      [] c = "L" -> "l"
      [] c = "M" -> "m"
      [] c = "Q" -> "q"
      [] c = "R" -> "r"
      [] c = "T" -> "t"
      [] c = "U" -> "u"
      [] OTHER -> c
Lower(s) == [i \in 1..Len(s) |-> LowerChar(s[i])]

\* pattern in error_str
Contains(s, p) ==
    \E i \in 1..(Len(s) - Len(p) + 1) : SubSeq(s, i, i + Len(p) - 1) = p

quota_patterns ==
    {<<"q","u","o","t","a">>,   \* quota
     <<"r","a","t","e"," ","l","i","m","i","t">>,   \* rate limit
     <<"r","a","t","e","_","l","i","m","i","t">>,   \* rate_limit
     <<"4","2","9">>,   \* 429
     <<"r","e","s","o","u","r","c","e"," ","e","x","h","a","u","s","t","e","d">>,   \* resource exhausted
     <<"t","o","o"," ","m","a","n","y"," ","r","e","q","u","e","s","t","s">>   \* too many requests
    }

IsQuotaCaseSensitive(msg) == \E p \in quota_patterns : Contains(msg, p)

_is_quota_limit_error(msg) ==
    LET error_str == Lower(msg) IN \E p \in quota_patterns : Contains(error_str, p)

\* Defaults of the helper's parameters (the call sites pass the same values).
DefaultMaxRetries == 1
retry_delay == 5

\* if _is_quota_limit_error(e) and attempt < max_retries
ShouldRetryInclusive(msg, att, max) == _is_quota_limit_error(msg) /\ att <= max
ShouldRetryNever(msg, att, max) == FALSE

ShouldRetry(msg, att, max) == _is_quota_limit_error(msg) /\ att < max

\* The messages a vendor error may carry.
QuotaMessages ==
    {<<"4","2","9">>,   \* 429
     <<"Q","u","o","t","a"," ","e","x","c","e","e","d","e","d">>,   \* Quota exceeded
     <<"R","A","T","E"," ","L","I","M","I","T"," ","r","e","a","c","h","e","d">>,   \* RATE LIMIT reached
     <<"r","a","t","e","_","l","i","m","i","t","_","e","r","r","o","r">>,   \* rate_limit_error
     <<"R","e","s","o","u","r","c","e"," ","E","x","h","a","u","s","t","e","d">>,   \* Resource Exhausted
     <<"T","o","o"," ","M","a","n","y"," ","R","e","q","u","e","s","t","s">>,   \* Too Many Requests
     <<"e","r","r","o","r"," ","4","2","9","0">>,   \* error 4290
     <<"q","u","o","t","a","t","i","o","n">>   \* quotation
    }
OtherMessages ==
    {<<>>,   \* (empty)
     <<"r","a","t","e","-","l","i","m","i","t">>,   \* rate-limit
     <<"r","a","t","e","l","i","m","i","t">>,   \* ratelimit
     <<"r","e","s","o","u","r","c","e","_","e","x","h","a","u","s","t","e","d">>,   \* resource_exhausted
     <<"t","o","o"," ","m","a","n","y"," ","r","e","q","u","e","s","t">>,   \* too many request
     <<"I","n","v","a","l","i","d"," ","r","e","q","u","e","s","t">>,   \* Invalid request
     <<"4","0","1"," ","U","n","a","u","t","h","o","r","i","z","e","d">>,   \* 401 Unauthorized
     <<"q","u","o","t"," ","a">>   \* quot a
    }
ErrorMessages == QuotaMessages \cup OtherMessages

\* What the n-th vendor call did: it returned its response or raised an error.
VendorResponse(n) == [kind |-> "response", call |-> n, msg |-> <<>>]
VendorError(n, m) == [kind |-> "error", call |-> n, msg |-> m]
RuntimeError      == [kind |-> "RuntimeError", call |-> 0, msg |-> <<>>]
NoOutcome         == [kind |-> "none", call |-> 0, msg |-> <<>>]

-----------------------------------------------------------------------------
(***************************************************************************)
(* parse_actions, called on its own with any of the texts                  *)
(***************************************************************************)
ParseIdle ==
    /\ response_text = <<>>
    /\ parse_result = [exc |-> "pending", value |-> <<>>]
    /\ parse_pc = "idle"

ParseInit ==
    /\ response_text \in ParseInputs
    /\ parse_result = [exc |-> "pending", value |-> <<>>]
    /\ parse_pc = "call"

ParseCall ==
    /\ parse_pc = "call"
    /\ parse_result' = parse_actions(response_text)
    /\ parse_pc' = IF parse_result'.exc = "none" THEN "returned" ELSE "raised"
    /\ UNCHANGED response_text

(***************************************************************************)
(* GoogleInterface._generate_content_with_retry                            *)
(***************************************************************************)
MaxMaxRetries == 2    \* largest max_retries argument tried

RetryIdle ==
    /\ retry_pc = "idle"
    /\ attempt = 0
    /\ vendor_calls = <<>>
    /\ sleeps = <<>>
    /\ retry_out = NoOutcome
    /\ max_retries = DefaultMaxRetries

RetryInit ==
    /\ retry_pc = "call"
    /\ attempt = 0
    /\ vendor_calls = <<>>
    /\ sleeps = <<>>
    /\ retry_out = NoOutcome
    /\ max_retries \in 0..MaxMaxRetries

\* try: return self.client.models.generate_content(...)
VendorReturns ==
    /\ retry_pc = "call"
    /\ LET r == VendorResponse(Len(vendor_calls) + 1) IN
       /\ vendor_calls' = Append(vendor_calls, r)
       /\ retry_out' = r
    /\ retry_pc' = "returned"
    /\ UNCHANGED <<attempt, sleeps, max_retries>>

\* except Exception as e: sleep and go on, or re-raise e
VendorRaises ==
    /\ retry_pc = "call"
    /\ \E m \in ErrorMessages :
         LET e == VendorError(Len(vendor_calls) + 1, m) IN
         /\ vendor_calls' = Append(vendor_calls, e)
         /\ IF ShouldRetry(m, attempt, max_retries)
            THEN /\ retry_pc' = "sleep"
                 /\ UNCHANGED retry_out
            ELSE /\ retry_pc' = "raised"
                 /\ retry_out' = e
    /\ UNCHANGED <<attempt, sleeps, max_retries>>

\* time.sleep(retry_delay); continue.  When the loop is over the helper
\* raises its own RuntimeError (line 259).
RetrySleep ==
    /\ retry_pc = "sleep"
    /\ sleeps' = Append(sleeps, retry_delay)
    /\ attempt' = attempt + 1
    /\ IF attempt + 1 <= max_retries
       THEN /\ retry_pc' = "call"
            /\ UNCHANGED retry_out
       ELSE /\ retry_pc' = "raised"
            /\ retry_out' = RuntimeError
    /\ UNCHANGED <<vendor_calls, max_retries>>

-----------------------------------------------------------------------------
(***************************************************************************)
(* run_llm_eval.py: the game surface.  An event is one call on the page:   *)
(* ev is "click", "press" (a key pressed and released), "down", "up",      *)
(* "sleep" (arg in ms), "shot" (a screenshot), "check" (check_game_ended), *)
(* "score" (the score read from the game state), "generate" (the model     *)
(* call, arg the number of messages sent)                                  *)
(* or "error" (the call raised and the error was logged); seg is the       *)
(* segment the call belongs to (-1 outside the plan) and by tells whether  *)
(* the loop itself ("controller"), the plan's execution ("scheduler") or   *)
(* restart_game ("restart") made it.                                       *)
(***************************************************************************)
Ev(ev, arg, seg, by) == [ev |-> ev, arg |-> arg, seg |-> seg, by |-> by]

ESCAPE == 27
ENTER  == 13
KEY_R  == 82

\* Durations, in ms.
FocusDelay      == 50     \* execute_action_playwright: after the click
SegmentDuration == 200    \* one segment's time window
PauseDelay      == 100
ResumeDelay     == 200
UnpauseDelay    == 50
RestartWait     == 800

\* The key codes Playwright has a key name for.
KEY_CODE_TO_PLAYWRIGHT_KEY == {13, 27, 32, 37, 38, 39, 40} \cup (65..90)

\* execute_action_playwright(canvas, action_code): click, wait, press.  The
\* call catches its own errors; outcome tells which call raised, if any.
ActionOutcomes == {"ok", "click_fails", "press_fails"}
execute_action_playwright(action_code, outcome, seg, by) ==
    CASE outcome = "click_fails" -> <<Ev("error", action_code, seg, by)>>
      [] outcome = "press_fails" ->
            <<Ev("click", 0, seg, by), Ev("sleep", FocusDelay, seg, by),
              Ev("error", action_code, seg, by)>>
      [] OTHER ->
            <<Ev("click", 0, seg, by), Ev("sleep", FocusDelay, seg, by)>>
            \o (IF action_code \in KEY_CODE_TO_PLAYWRIGHT_KEY
                THEN <<Ev("press", action_code, seg, by)>> ELSE <<>>)

\* execute_hold_actions_playwright(canvas, key_codes, duration): all keys
\* down, wait, all keys up.  outcome.at names the call that raised ("none",
\* "click", "down" or "up") and outcome.k the key it raised on.
HoldOutcomes(n) ==
    {[at |-> "none", k |-> 0], [at |-> "click", k |-> 0]}
    \cup {[at |-> a, k |-> k] : a \in {"down", "up"}, k \in 1..n}

Downs(keys, n, seg) == [i \in 1..n |-> Ev("down", keys[i], seg, "scheduler")]
Ups(keys, n, seg)   == [i \in 1..n |-> Ev("up", keys[i], seg, "scheduler")]

HoldStaggered(key_codes, duration, outcome, seg) ==
    Flatten([i \in 1..Len(key_codes) |->
                <<Ev("down", key_codes[i], seg, "scheduler"),
                  Ev("sleep", duration, seg, "scheduler"),
                  Ev("up", key_codes[i], seg, "scheduler")>>])

execute_hold_actions_playwright(key_codes, duration, outcome, seg) ==
    IF key_codes = <<>> THEN <<>>
    ELSE IF outcome.at = "click" THEN <<Ev("error", 0, seg, "scheduler")>>
    ELSE LET keys == SelectSeq(key_codes,
                               LAMBDA c : c \in KEY_CODE_TO_PLAYWRIGHT_KEY)
             n    == Len(keys)
             click == <<Ev("click", 0, seg, "scheduler")>>
             wait  == <<Ev("sleep", duration, seg, "scheduler")>>
         IN  IF keys = <<>> THEN click
             ELSE IF outcome.at = "down" /\ outcome.k <= n
                  THEN click \o Downs(keys, outcome.k - 1, seg)
                       \o <<Ev("error", keys[outcome.k], seg, "scheduler")>>
             ELSE IF outcome.at = "up" /\ outcome.k <= n
                  THEN click \o Downs(keys, n, seg) \o wait
                       \o Ups(keys, outcome.k - 1, seg)
                       \o <<Ev("error", keys[outcome.k], seg, "scheduler")>>
             ELSE click \o Downs(keys, n, seg) \o wait \o Ups(keys, n, seg)

\* restart_game(canvas, page): R twice, Enter twice, a check, and when the
\* game is still ended R and Enter once more with keydown/keyup.  Every step
\* catches its own errors; failed is the set of steps that raise.
RestartSteps == {"r1_click", "r1_press", "r2", "enter1", "enter2", "aggressive"}
restart_game(failed, still_ended) ==
    LET E(ev, arg) == Ev(ev, arg, -1, "restart") IN
       (IF "r1_click" \in failed THEN <<E("error", KEY_R)>>
        ELSE IF "r1_press" \in failed
             THEN <<E("click", 0), E("sleep", 150), E("error", KEY_R)>>
        ELSE <<E("click", 0), E("sleep", 150), E("press", KEY_R)>>)
    \o <<E("sleep", 300)>>
    \o (IF "r2" \in failed THEN <<E("error", KEY_R)>> ELSE <<E("press", KEY_R)>>)
    \o <<E("sleep", 400)>>
    \o execute_action_playwright(ENTER,
          IF "enter1" \in failed THEN "press_fails" ELSE "ok", -1, "restart")
    \o (IF "enter2" \in failed THEN <<E("error", ENTER)>> ELSE <<E("press", ENTER)>>)
    \o <<E("sleep", 500), E("check", 0)>>
    \o (IF ~still_ended THEN <<>>
        ELSE IF "aggressive" \in failed THEN <<E("error", 0)>>
        ELSE <<E("click", 0), E("sleep", 100),
               E("down", KEY_R), E("sleep", 50), E("up", KEY_R), E("sleep", 300),
               E("down", ENTER), E("sleep", 50), E("up", ENTER), E("sleep", 400)>>)

\* The loop's split of a segment (lines 896-905).
HoldCodes(segment) ==
    LET hs == SelectSeq(segment, LAMBDA a : a.t = "HOLD") IN
    [i \in 1..Len(hs) |-> hs[i].c]
InstantCodes(segment) ==
    LET is == SelectSeq(segment, LAMBDA a : a.t # "HOLD" /\ a # None) IN
    [i \in 1..Len(is) |-> is[i].c]

-----------------------------------------------------------------------------
(***************************************************************************)
(* run_one_game: the loop, one action per step of its body                 *)
(***************************************************************************)
max_seconds == 2     \* args.max_seconds: the budget of model calls
MaxFaults   == 1     \* surface calls that may fail in one run

\* The scratchpad wire format: the tags match in any case (re.IGNORECASE).
Scratchpad(open, body, close) ==
    <<Tok("sopen", open)>> \o body \o <<Tok("sclose", close)>>
Memo(s) == Tok("txt", s)

\* What the model may answer in a run: a plan, some with a scratchpad block
\* (padded with white space, in capitals after the plan, holding only white
\* space).
ModelOutputs ==
    {Scratchpad("<scratchpad>", <<WS, Memo("the door is on the left"), WS>>,
                "</scratchpad>") \o ExampleFive,
     InKeys(RenderPlan(<< <<D("up"), D("hold_left"), D("HOLD_UP"), D("jump")>>,
                          <<D("ESC")>>, <<>>, <<D("hold_space")>>,
                          <<D("q"), D("Left"), D("enter")>> >>))
        \o Scratchpad("<SCRATCHPAD>", <<Memo("jump over the gap")>>,
                      "</Scratchpad>"),
     SingleQuoted(ExampleOne),
     Scratchpad("<scratchpad>", <<WS>>, "</scratchpad>") \o ExampleSix,
     ExampleNoTags,
     InKeys(<<LB, LB, D("UP"), RB>>),
     InKeys(<<LC, D("keys"), COLON, LB, LB, D("UP"), RB, RB, RC>>)}

NoActions == [exc |-> "pending", value |-> <<>>]

\* A str or None held by the loop: the text is a sequence of tokens.
Text(toks) == [t |-> "str", text |-> toks]
NoText     == [t |-> "NoneType", text |-> <<>>]

\* response['token_usage'] with the keys the loop reads (lines 849-853).
StepUsage(input, output, reasoning) ==
    [input_tokens |-> input, output_tokens |-> output,
     total_tokens |-> input + output, reasoning_tokens |-> reasoning]
NoTokens == StepUsage(0, 0, 0)

CtlIdle ==
    /\ pc = "idle"
    /\ successful_api_calls = 0
    /\ episode_count = 1
    /\ step_count = 0
    /\ game_ended_before_pause = FALSE
    /\ game_ended = FALSE
    /\ assistant_output_text = <<>>
    /\ actions = NoActions
    /\ segment_idx = 0
    /\ instant_actions = <<>>
    /\ hold_actions = <<>>
    /\ executed_actions = <<>>
    /\ last_executed_actions = <<>>
    /\ frame_history = <<>>
    /\ last_render_frames = <<>>
    /\ content_history = <<>>
    /\ full_content_history = <<>>
    /\ run_error = "none"
    /\ events = <<>>
    /\ faults = 0
    /\ visual_sections = <<>>
    /\ action_snapshots = <<>>
    /\ token_usage = NoTokens
    /\ gameplay_log = <<>>
    /\ current_scratchpad_text = NoText

\* Lines 572-699: the state the loop starts in.
CtlInit ==
    /\ pc = "loop"
    /\ successful_api_calls = 0
    /\ episode_count = 1
    /\ step_count = 0
    /\ game_ended_before_pause = FALSE
    /\ game_ended = FALSE
    /\ assistant_output_text = <<>>
    /\ actions = NoActions
    /\ segment_idx = 0
    /\ instant_actions = <<>>
    /\ hold_actions = <<>>
    /\ executed_actions = <<>>
    /\ last_executed_actions = <<>>
    /\ frame_history = <<>>
    /\ last_render_frames = <<>>
    /\ content_history = <<>>
    /\ full_content_history = <<>>
    /\ run_error = "none"
    /\ events = <<>>
    /\ faults = 0
    /\ visual_sections = <<>>
    /\ action_snapshots = <<>>
    /\ token_usage = NoTokens
    /\ gameplay_log = <<>>
    /\ current_scratchpad_text = NoText

CtlEv(ev, arg) == Ev(ev, arg, -1, "controller")

\* Outcomes of one execute_action_playwright call the fault budget allows.
AllowedOutcomes == IF faults < MaxFaults THEN ActionOutcomes ELSE {"ok"}
Cost(outcome) == IF outcome = "ok" THEN 0 ELSE 1

\* The condition of the while loop (line 701).
BudgetLeftInclusive(calls) == calls <= max_seconds
BudgetLeft(calls) == calls < max_seconds

\* while successful_api_calls < args.max_seconds: canvas = find_canvas(page)
\* A new cycle starts: the events of the cycle before are dropped.
FindCanvas ==
    /\ pc = "loop"
    /\ UNCHANGED run_error
    /\ UNCHANGED logVars
    /\ UNCHANGED memVars
    /\ BudgetLeft(successful_api_calls)
    /\ pc' = "observe"
    /\ events' = <<>>
    /\ UNCHANGED <<successful_api_calls, episode_count, step_count,
                   game_ended_before_pause, game_ended, assistant_output_text,
                   actions, segment_idx, instant_actions, hold_actions,
                   executed_actions, last_executed_actions, faults>>

\* except Exception: time.sleep(1); continue
CanvasNotFound ==
    /\ pc = "loop"
    /\ UNCHANGED run_error
    /\ UNCHANGED logVars
    /\ UNCHANGED memVars
    /\ BudgetLeft(successful_api_calls)
    /\ faults < MaxFaults
    /\ faults' = faults + 1
    /\ events' = <<CtlEv("error", 0), CtlEv("sleep", 1000)>>
    /\ UNCHANGED <<pc, successful_api_calls, episode_count, step_count,
                   game_ended_before_pause, game_ended, assistant_output_text,
                   actions, segment_idx, instant_actions, hold_actions,
                   executed_actions, last_executed_actions>>

\* The while condition is false: on to the finally block.
BudgetReached ==
    /\ pc = "loop"
    /\ UNCHANGED run_error
    /\ UNCHANGED logVars
    /\ UNCHANGED memVars
    /\ ~BudgetLeft(successful_api_calls)
    /\ pc' = "finally"
    /\ UNCHANGED <<successful_api_calls, episode_count, step_count,
                   game_ended_before_pause, game_ended, assistant_output_text,
                   actions, segment_idx, instant_actions, hold_actions,
                   executed_actions, last_executed_actions, events, faults>>

\* Lines 709-724: the observation screenshot and the first end-of-game check.
Observe ==
    /\ pc = "observe"
    /\ UNCHANGED run_error
    /\ UNCHANGED logVars
    /\ UNCHANGED memVars
    /\ \E ended \in BOOLEAN : game_ended_before_pause' = ended
    /\ events' = events \o <<CtlEv("shot", 0), CtlEv("check", 0)>>
    /\ pc' = "pause"
    /\ UNCHANGED <<successful_api_calls, episode_count, step_count, game_ended,
                   assistant_output_text, actions, segment_idx, instant_actions,
                   hold_actions, executed_actions, last_executed_actions, faults>>

\* Lines 726-734: Escape pauses the game; the score is read.
Pause ==
    /\ pc = "pause"
    /\ UNCHANGED run_error
    /\ UNCHANGED logVars
    /\ UNCHANGED memVars
    /\ \E o \in AllowedOutcomes :
         /\ events' = events
                \o execute_action_playwright(ESCAPE, o, -1, "controller")
                \o <<CtlEv("sleep", PauseDelay), CtlEv("score", 0)>>
         /\ faults' = faults + Cost(o)
    /\ pc' = "generate"
    /\ UNCHANGED <<successful_api_calls, episode_count, step_count,
                   game_ended_before_pause, game_ended, assistant_output_text,
                   actions, segment_idx, instant_actions, hold_actions,
                   executed_actions, last_executed_actions>>

\* Lines 789-790 and 860-863: the entries of a cycle.  The content of an
\* entry is named by the number of its cycle.
\* obj tells the object built by the loop from a copy made of it.
user_entry(cycle) ==
    [role |-> "user", content |-> cycle, obj |-> "entry"]
assistant_entry(cycle) ==
    [role |-> "assistant", content |-> cycle, obj |-> "entry"]

\* gameplay_utils.append_history_entry: the entry goes to the active
\* buffer, a deep copy of it to the archive.
same_object(entry) == entry
deepcopy(entry) == [entry EXCEPT !.obj = "copy"]
append_history_entry(entry, history, full_history) ==
    [history |-> Append(history, entry),
     full_history |-> Append(full_history, deepcopy(entry))]

\* The usage a response reports: the prompt's tokens grow with the frames
\* in the message, the completion's tokens are those of the answer.
ReportedUsage(frames, text) == StepUsage(Len(frames) + 1, Len(text), 0)

\* Line 795: interface.generate(messages=[user_entry])
MessagesFullHistory(entry, history, full_history) == full_history
Messages(entry, history, full_history) == <<entry>>

\* Lines 736-805: the message is built and appended to both histories, and
\* interface.generate returns.
Generate ==
    /\ pc = "generate"
    /\ UNCHANGED run_error
    /\ \E text \in ModelOutputs :
         /\ assistant_output_text' = text
         /\ token_usage' = ReportedUsage(last_render_frames, text)
    /\ visual_sections' = last_render_frames
    /\ UNCHANGED <<action_snapshots, gameplay_log, current_scratchpad_text>>
    /\ LET entry == user_entry(successful_api_calls + 1)
           appended == append_history_entry(entry, content_history,
                                            full_content_history)
       IN
         /\ content_history' = appended.history
         /\ full_content_history' = appended.full_history
         /\ events' = Append(events,
                CtlEv("generate", Len(Messages(entry, content_history',
                                               full_content_history'))))
    /\ successful_api_calls' = successful_api_calls + 1
    /\ pc' = "check_ended"
    /\ UNCHANGED <<episode_count, step_count, game_ended_before_pause,
                   game_ended, actions, segment_idx, instant_actions,
                   hold_actions, executed_actions, last_executed_actions,
                   frame_history, last_render_frames, faults>>

\* The errors a provider call may end with: the key is refused, the quota
\* or rate limit is still exceeded after the adapter's retries, the request
\* is refused.
ProviderErrors == {"auth", "quota", "request"}

\* interface.generate raises: except Exception (line 1014), then finally.
GenerateRaises ==
    /\ pc = "generate"
    /\ \E e \in ProviderErrors : run_error' = e
    /\ visual_sections' = last_render_frames
    /\ UNCHANGED <<action_snapshots, token_usage, gameplay_log,
                   current_scratchpad_text>>
    /\ LET entry == user_entry(successful_api_calls + 1)
           appended == append_history_entry(entry, content_history,
                                            full_content_history)
       IN
         /\ content_history' = appended.history
         /\ full_content_history' = appended.full_history
         /\ events' = events \o
                <<CtlEv("generate", Len(Messages(entry, content_history',
                                                 full_content_history'))),
                  CtlEv("error", 0)>>
    /\ pc' = "finally"
    /\ UNCHANGED <<successful_api_calls, episode_count, step_count,
                   game_ended_before_pause, game_ended, assistant_output_text,
                   actions, segment_idx, instant_actions, hold_actions,
                   executed_actions, last_executed_actions, frame_history,
                   last_render_frames, faults>>

\* Lines 807-825: the second end-of-game check; when the game has ended the
\* counters and the frame memory are reset and Escape is pressed to unpause
\* before the restart.
EpisodePerCheck(count, before, after) ==
    count + (IF before THEN 1 ELSE 0) + (IF after THEN 1 ELSE 0)
EpisodeAfter(count, before, after) ==
    IF after \/ before THEN count + 1 ELSE count

CheckEnded ==
    /\ pc = "check_ended"
    /\ UNCHANGED run_error
    /\ UNCHANGED logVars
    /\ \E ended \in BOOLEAN :
         /\ game_ended' = ended
         /\ episode_count' = EpisodeAfter(episode_count, game_ended_before_pause, ended)
         /\ IF ended \/ game_ended_before_pause
            THEN /\ step_count' = 0
                 /\ frame_history' = <<>>
                 /\ last_render_frames' = <<>>
                 /\ \E o \in AllowedOutcomes :
                      /\ events' = events \o <<CtlEv("check", 0)>>
                             \o execute_action_playwright(ESCAPE, o, -1, "controller")
                             \o <<CtlEv("sleep", UnpauseDelay)>>
                      /\ faults' = faults + Cost(o)
                 /\ pc' = "restart"
            ELSE /\ events' = events \o <<CtlEv("check", 0)>>
                 /\ pc' = "parse"
                 /\ UNCHANGED <<step_count, frame_history,
                                last_render_frames, faults>>
    /\ UNCHANGED <<successful_api_calls, game_ended_before_pause,
                   assistant_output_text, actions, segment_idx, instant_actions,
                   hold_actions, executed_actions, last_executed_actions,
                   content_history, full_content_history>>

\* Lines 826-842: restart_game, the canvas found again and clicked, the wait
\* and the check that only logs whether the game is still ended.
\* Lines 837-842: still_ended is only logged, with a warning or an info.
AbortWhenStillEnded(still_ended) == IF still_ended THEN "finally" ELSE "parse"
AfterRestart(still_ended) == "parse"

Restart ==
    /\ pc = "restart"
    /\ UNCHANGED run_error
    /\ UNCHANGED logVars
    /\ UNCHANGED memVars
    /\ \E failed \in SUBSET RestartSteps, still_ended \in BOOLEAN,
          refound \in BOOLEAN, verified_ended \in BOOLEAN :
         /\ Cardinality(failed) + (IF refound THEN 0 ELSE 1) <= MaxFaults - faults
         /\ "r1_click" \in failed => "r1_press" \notin failed
         /\ "aggressive" \in failed => still_ended
         /\ faults' = faults + Cardinality(failed) + (IF refound THEN 0 ELSE 1)
         /\ pc' = AfterRestart(verified_ended)
         /\ events' = events \o restart_game(failed, still_ended)
                \o <<CtlEv(IF refound THEN "click" ELSE "error", 0),
                     CtlEv("sleep", RestartWait),
                     CtlEv("check", IF verified_ended THEN 1 ELSE 0)>>
    /\ UNCHANGED <<successful_api_calls, episode_count, step_count,
                   game_ended_before_pause, game_ended, assistant_output_text,
                   actions, segment_idx, instant_actions, hold_actions,
                   executed_actions, last_executed_actions>>

\* Lines 848-881: the plan is parsed.  An error parse_actions raised would
\* leave the loop through except Exception (line 1014).  ParsedOutputs is
\* parse_actions over the texts of a run, computed once.
ParsedOutputs == [text \in ModelOutputs |-> parse_actions(text)]

\* gameplay_utils.extract_scratchpad_text: the body of the leftmost
\* <scratchpad>...</scratchpad> block, stripped; None without a block.
extract_scratchpad_text(text) ==
    IF text = <<>> THEN NoText
    ELSE LET o == FirstIdx(text, "sopen", 1)
             c == IF o = 0 THEN 0 ELSE FirstIdx(text, "sclose", o + 1)
         IN  IF c = 0 THEN NoText
             ELSE Text(strip(SubSeq(text, o + 1, c - 1)))

\* Lines 871-878: a non-empty block replaces the memory; without one the
\* memory is kept, but a memory that is still None takes the whole response.
TruthyText(v) == v.t = "str" /\ v.text # <<>>
\* extract_scratchpad_text over the texts of a run, computed once.
ExtractedScratchpads ==
    [text \in ModelOutputs |-> extract_scratchpad_text(text)]
KeepScratchpad(current, text) ==
    LET scratchpad_text == ExtractedScratchpads[text] IN
    IF TruthyText(scratchpad_text) THEN scratchpad_text ELSE current
ScratchpadAfter(current, text) ==
    LET scratchpad_text == ExtractedScratchpads[text] IN
    IF TruthyText(scratchpad_text) THEN scratchpad_text
    ELSE IF current = NoText THEN Text(text)
    ELSE current

ParsePlan ==
    /\ pc = "parse"
    /\ UNCHANGED run_error
    /\ LET result == ParsedOutputs[assistant_output_text] IN
         /\ actions' = result
         /\ IF result.exc = "none"
            THEN /\ full_content_history' =
                       append_history_entry(
                           assistant_entry(successful_api_calls),
                           content_history, full_content_history).full_history
                 /\ content_history' = <<>>
                 /\ current_scratchpad_text' =
                       ScratchpadAfter(current_scratchpad_text,
                                       assistant_output_text)
                 /\ pc' = "resume"
            ELSE /\ pc' = "finally"
                 /\ UNCHANGED <<content_history, full_content_history,
                                current_scratchpad_text>>
    /\ executed_actions' = <<>>
    /\ action_snapshots' = <<>>
    /\ UNCHANGED <<visual_sections, token_usage, gameplay_log>>
    /\ UNCHANGED <<successful_api_calls, episode_count, step_count,
                   game_ended_before_pause, game_ended, assistant_output_text,
                   segment_idx, instant_actions, hold_actions,
                   last_executed_actions, frame_history, last_render_frames,
                   events, faults>>

\* Lines 883-886: Escape resumes the game.
Resume ==
    /\ pc = "resume"
    /\ UNCHANGED run_error
    /\ UNCHANGED logVars
    /\ UNCHANGED memVars
    /\ \E o \in AllowedOutcomes :
         /\ events' = events
                \o execute_action_playwright(ESCAPE, o, -1, "controller")
                \o <<CtlEv("sleep", ResumeDelay)>>
         /\ faults' = faults + Cost(o)
    /\ segment_idx' = 0
    /\ pc' = "segment"
    /\ UNCHANGED <<successful_api_calls, episode_count, step_count,
                   game_ended_before_pause, game_ended, assistant_output_text,
                   actions, instant_actions, hold_actions, executed_actions,
                   last_executed_actions>>

\* Lines 890-905: the next segment of the plan, unless the budget is used
\* up (break) or the plan is over.
SegmentStart ==
    /\ pc = "segment"
    /\ UNCHANGED run_error
    /\ UNCHANGED logVars
    /\ UNCHANGED memVars
    /\ IF segment_idx < Len(actions.value) /\ successful_api_calls < max_seconds
       THEN LET segment == actions.value[segment_idx + 1] IN
            /\ hold_actions' = HoldCodes(segment)
            /\ instant_actions' = InstantCodes(segment)
            /\ pc' = "instants"
       ELSE /\ pc' = "log"
            /\ UNCHANGED <<hold_actions, instant_actions>>
    /\ UNCHANGED <<successful_api_calls, episode_count, step_count,
                   game_ended_before_pause, game_ended, assistant_output_text,
                   actions, segment_idx, executed_actions,
                   last_executed_actions, events, faults>>

\* Lines 907-911: every instant key is pressed, one call each.
InstantActions ==
    /\ pc = "instants"
    /\ UNCHANGED run_error
    /\ UNCHANGED logVars
    /\ UNCHANGED memVars
    /\ \E o \in [1..Len(instant_actions) -> ActionOutcomes] :
         LET cost == Cardinality({i \in DOMAIN o : o[i] # "ok"}) IN
         /\ cost <= MaxFaults - faults
         /\ faults' = faults + cost
         /\ events' = events \o
                Flatten([i \in 1..Len(instant_actions) |->
                    execute_action_playwright(instant_actions[i], o[i],
                                              segment_idx, "scheduler")])
    /\ executed_actions' = executed_actions
            \o [i \in 1..Len(instant_actions) |-> Key(instant_actions[i])]
    /\ pc' = "holds"
    /\ UNCHANGED <<successful_api_calls, episode_count, step_count,
                   game_ended_before_pause, game_ended, assistant_output_text,
                   actions, segment_idx, instant_actions, hold_actions,
                   last_executed_actions>>

\* Lines 913-918: the held keys of the segment, in one call.
HoldActions ==
    /\ pc = "holds"
    /\ UNCHANGED run_error
    /\ UNCHANGED logVars
    /\ UNCHANGED memVars
    /\ IF hold_actions # <<>>
       THEN /\ \E o \in HoldOutcomes(Len(hold_actions)) :
                 /\ o.at # "none" => faults < MaxFaults
                 /\ faults' = faults + (IF o.at = "none" THEN 0 ELSE 1)
                 /\ events' = events \o
                        execute_hold_actions_playwright(hold_actions,
                            SegmentDuration, o, segment_idx)
            /\ executed_actions' = executed_actions
                   \o [i \in 1..Len(hold_actions) |-> Hold(hold_actions[i])]
       ELSE UNCHANGED <<faults, events, executed_actions>>
    /\ pc' = "noop"
    /\ UNCHANGED <<successful_api_calls, episode_count, step_count,
                   game_ended_before_pause, game_ended, assistant_output_text,
                   actions, segment_idx, instant_actions, hold_actions,
                   last_executed_actions>>

\* Lines 920-922: a segment without any key waits.
NoopSleep ==
    /\ pc = "noop"
    /\ UNCHANGED run_error
    /\ UNCHANGED logVars
    /\ UNCHANGED memVars
    /\ events' = IF instant_actions = <<>> /\ hold_actions = <<>>
                 THEN Append(events, Ev("sleep", SegmentDuration, segment_idx, "scheduler"))
                 ELSE events
    /\ pc' = "segment_end"
    /\ UNCHANGED <<successful_api_calls, episode_count, step_count,
                   game_ended_before_pause, game_ended, assistant_output_text,
                   actions, segment_idx, instant_actions, hold_actions,
                   executed_actions, last_executed_actions, faults>>

\* Lines 938-943: the names of a segment's actions, "NOOP" when it has none.
NoopName == [t |-> "NOOP", c |-> 0]
action_name_raw(segment) == segment
action_name_str(segment) ==
    LET action_names == SelectSeq(segment, LAMBDA a : a # None) IN
    IF action_names = <<>> THEN <<NoopName>> ELSE action_names

\* Lines 924-955: the frame after the segment, kept in frame_history when
\* the screenshot has bytes (a failed screenshot is b""); on to the next
\* segment.
SegmentEnd ==
    /\ pc = "segment_end"
    /\ UNCHANGED run_error
    /\ events' = Append(events, Ev("shot", 0, segment_idx, "scheduler"))
    /\ \E shot_ok \in BOOLEAN :
         /\ ~shot_ok => faults < MaxFaults
         /\ faults' = faults + (IF shot_ok THEN 0 ELSE 1)
         /\ frame_history' =
                IF shot_ok
                THEN Append(frame_history,
                            [episode |-> episode_count, step |-> step_count,
                             action_index |-> segment_idx,
                             action_name |->
                                 action_name_str(actions.value[segment_idx + 1])])
                ELSE frame_history
         /\ action_snapshots' =
                Append(action_snapshots,
                       [index |-> segment_idx, screenshot |-> shot_ok])
    /\ UNCHANGED <<visual_sections, token_usage, gameplay_log,
                   current_scratchpad_text>>
    /\ UNCHANGED <<last_render_frames, content_history, full_content_history>>
    /\ segment_idx' = segment_idx + 1
    /\ pc' = "segment"
    /\ UNCHANGED <<successful_api_calls, episode_count, step_count,
                   game_ended_before_pause, game_ended, assistant_output_text,
                   actions, instant_actions, hold_actions, executed_actions,
                   last_executed_actions>>

\* Lines 960-964: the frames of this step, for the next message.
AllFrames(history, episode, step) == history
RenderFrames(history, episode, step) ==
    SelectSeq(history, LAMBDA f : f.step = step /\ f.episode = episode)

\* Line 1010: step_count += 1
SameStep(step) == step
NextStep(step) == step + 1

\* Lines 695-699: the cumulative counters; the loop never adds to them.
cumulative_input_tokens  == 0
cumulative_output_tokens == 0
cumulative_total_tokens  == 0

\* Lines 966-985: the entry of a step, with the fields of its record file
\* episode_{episode}_step_{step}.json.
log_entry(episode, step, snapshots, usage) ==
    [episode |-> episode, step |-> step, action_snapshots |-> snapshots,
     token_usage |->
        [input_tokens |-> usage.input_tokens,
         output_tokens |-> usage.output_tokens,
         total_tokens |-> usage.total_tokens,
         cumulative_input_tokens |-> cumulative_input_tokens,
         cumulative_output_tokens |-> cumulative_output_tokens,
         cumulative_total_tokens |-> cumulative_total_tokens]]

\* Lines 958-1010: the step is logged and counted.  The locals of the loop
\* body are written again before the next cycle reads them; they are
\* cleared here so that cycles which differ only in such stale values meet.
LogStep ==
    /\ pc = "log"
    /\ UNCHANGED run_error
    /\ last_executed_actions' = executed_actions
    /\ step_count' = NextStep(step_count)
    /\ pc' = "loop"
    /\ game_ended_before_pause' = FALSE
    /\ game_ended' = FALSE
    /\ assistant_output_text' = <<>>
    /\ actions' = NoActions
    /\ segment_idx' = 0
    /\ instant_actions' = <<>>
    /\ hold_actions' = <<>>
    /\ executed_actions' = <<>>
    /\ last_render_frames' =
            RenderFrames(frame_history, episode_count, step_count)
    /\ gameplay_log' = Append(gameplay_log,
            log_entry(episode_count, step_count, action_snapshots, token_usage))
    /\ visual_sections' = <<>>
    /\ action_snapshots' = <<>>
    /\ token_usage' = NoTokens
    /\ UNCHANGED current_scratchpad_text
    /\ UNCHANGED <<successful_api_calls, episode_count, frame_history,
                   content_history, full_content_history, events, faults>>

\* Lines 1016-1049: the results are saved and the browser closed.
Finally ==
    /\ pc = "finally"
    /\ UNCHANGED run_error
    /\ UNCHANGED logVars
    /\ UNCHANGED memVars
    /\ pc' = "done"
    /\ UNCHANGED <<successful_api_calls, episode_count, step_count,
                   game_ended_before_pause, game_ended, assistant_output_text,
                   actions, segment_idx, instant_actions, hold_actions,
                   executed_actions, last_executed_actions, events, faults>>

-----------------------------------------------------------------------------
(***************************************************************************)
(* llm_interface/api: the provider adapters.  One call of an adapter's     *)
(* generate is modelled in its stages: the conversion of the message list  *)
(* and of a message's content parts into the vendor's request, the choice  *)
(* of the sampling parameters, the vendor call, and the construction of    *)
(* the result from the vendor's response.  adapter_in.op names the stage   *)
(* a run exercises.                                                        *)
(*                                                                         *)
(* A Python value is a record [t, s, n]: a str, an int, None, or Missing   *)
(* for a dictionary key that is not there.                                 *)
(***************************************************************************)
PyStr(s) == [t |-> "str", s |-> s, n |-> 0]
PyInt(n) == [t |-> "int", s |-> "", n |-> n]
PyNone   == [t |-> "NoneType", s |-> "", n |-> 0]
Missing  == [t |-> "missing", s |-> "", n |-> 0]

Providers == {"openai", "anthropic", "google", "togetherai", "xai"}

\* What the model name holds, as far as estimate_tokens looks at it.
ModelFamilies == {"gpt", "llama", "qwen", "other"}

\* The shapes of a vendor response: the text content (a string, the empty
\* string or null), whether it has any choice/candidate/content block at
\* all, and its usage data: "full" (every count), "fieldless" (a usage
\* object without the counts), "nulls" (the counts are null), "none" (usage
\* is null) and "absent" (the response has no usage attribute).
ResponseTexts == {PyStr("I will move right. <keys>[[39]]</keys>"), PyStr(""), PyNone}
UsageShapes   == {"full", "fieldless", "nulls", "none", "absent"}
ResponseShapes ==
    [text : ResponseTexts, choices : BOOLEAN, usage : UsageShapes,
     model : ModelFamilies]

\* The counts of a "full" usage object and the text of the request.
VendorUsage == [input |-> 120, output |-> 9, total |-> 129]
PromptText  == "What keys do you press next?"

usage_dict(input_tokens, output_tokens, total_tokens) ==
    [input_tokens |-> input_tokens, output_tokens |-> output_tokens,
     total_tokens |-> total_tokens]
NoUsage == usage_dict(Missing, Missing, Missing)

GenerationResult(output, usage) ==
    [exc |-> "none", output |-> output, token_usage |-> usage]
GenerationError(exc) ==
    [exc |-> exc, output |-> Missing, token_usage |-> NoUsage]
NoResult == GenerationError("pending")

\* token_counting.estimate_tokens(text, model_name)
estimate_tokens(text, model) ==
    LET base_estimate == Len(text) \div 4 IN
    CASE model = "gpt"   -> (base_estimate * 11) \div 10
      [] model = "llama" -> base_estimate
      [] model = "qwen"  -> (base_estimate * 12) \div 10
      [] OTHER -> IF base_estimate > 1 THEN base_estimate ELSE 1

\* getattr(usage, name, 0) of a usage object that is not None
UsageField(shape, n) ==
    CASE shape = "full"      -> PyInt(n)
      [] shape = "fieldless" -> PyInt(0)
      [] shape = "nulls"     -> PyNone

\* TogetherAIInterface.generate: the text of the first choice, "" without
\* choices; the usage dictionary is filled only from a usage object.
togetherai_result(r) ==
    LET generated_text == IF r.choices THEN r.text ELSE PyStr("")
        usage ==
            IF r.usage \in {"full", "fieldless", "nulls"}
            THEN usage_dict(UsageField(r.usage, VendorUsage.input),
                            UsageField(r.usage, VendorUsage.output),
                            UsageField(r.usage, VendorUsage.total))
            ELSE NoUsage
    IN GenerationResult(generated_text, usage)

\* GoogleInterface.generate: response.text or ""; the counts are read from
\* usage_metadata whenever the response has the attribute, and
\* tokens_per_second divides the output count.
google_result(r) ==
    LET text_or_none == IF r.choices THEN r.text ELSE PyNone
        generated_text ==
            IF text_or_none.t = "str" /\ text_or_none.s # ""
            THEN text_or_none ELSE PyStr("")
    IN CASE r.usage = "absent" ->
              GenerationResult(generated_text,
                               usage_dict(PyInt(0), PyInt(0), PyInt(0)))
         [] r.usage \in {"none", "fieldless"} -> GenerationError("AttributeError")
         [] r.usage = "nulls" -> GenerationError("TypeError")
         [] r.usage = "full" ->
              GenerationResult(generated_text,
                               usage_dict(PyInt(VendorUsage.input),
                                          PyInt(VendorUsage.output),
                                          PyInt(VendorUsage.total)))

\* OpenAIInterface._generate_with_responses: response.output_text; the
\* counts of a usage object, else estimates from the texts.
openai_result(r) ==
    LET generated_text == IF r.choices THEN r.text ELSE PyStr("") IN
    CASE r.usage \in {"none", "absent"} ->
            IF generated_text.t # "str"
            THEN GenerationError("TypeError")
            ELSE LET input_tokens  == estimate_tokens(PromptText, r.model)
                     output_tokens == estimate_tokens(generated_text.s, r.model)
                 IN GenerationResult(generated_text,
                        usage_dict(PyInt(input_tokens), PyInt(output_tokens),
                                   PyInt(input_tokens + output_tokens)))
      [] r.usage = "nulls" -> GenerationError("TypeError")
      [] OTHER ->
            GenerationResult(generated_text,
                usage_dict(UsageField(r.usage, VendorUsage.input),
                           UsageField(r.usage, VendorUsage.output),
                           UsageField(r.usage, VendorUsage.total)))

\* AnthropicInterface.generate: the text blocks concatenated; the counts
\* are read from response.usage without a default.
anthropic_result(r) ==
    CASE r.choices /\ r.text.t # "str" -> GenerationError("TypeError")
      [] r.usage \in {"none", "absent", "fieldless"} ->
            GenerationError("AttributeError")
      [] r.usage = "nulls" -> GenerationError("TypeError")
      [] OTHER ->
            GenerationResult(IF r.choices THEN r.text ELSE PyStr(""),
                usage_dict(PyInt(VendorUsage.input), PyInt(VendorUsage.output),
                           PyInt(VendorUsage.input + VendorUsage.output)))

\* XAIInterface.generate: response.content; the counts of the usage
\* attribute, estimated when the dictionary is empty or its total is 0.
xai_result(r) ==
    LET generated_text == IF r.choices THEN r.text ELSE PyStr("")
        read ==
            CASE r.usage = "absent" -> NoUsage
              [] r.usage \in {"none", "fieldless"} ->
                    usage_dict(PyInt(0), PyInt(0), PyInt(0))
              [] r.usage = "nulls" ->
                    usage_dict(PyInt(0), PyInt(0), PyNone)
              [] r.usage = "full" ->
                    usage_dict(PyInt(VendorUsage.input),
                               PyInt(VendorUsage.output),
                               PyInt(VendorUsage.total))
        estimate == read = NoUsage \/ read.total_tokens = PyInt(0)
    IN IF ~estimate THEN GenerationResult(generated_text, read)
       ELSE IF generated_text.t # "str" THEN GenerationError("TypeError")
       ELSE LET input_tokens  == estimate_tokens(PromptText, r.model)
                output_tokens == estimate_tokens(generated_text.s, r.model)
            IN GenerationResult(generated_text,
                   usage_dict(PyInt(input_tokens), PyInt(output_tokens),
                              PyInt(input_tokens + output_tokens)))

build_result(p, r) ==
    CASE p = "openai"     -> openai_result(r)
      [] p = "anthropic"  -> anthropic_result(r)
      [] p = "google"     -> google_result(r)
      [] p = "togetherai" -> togetherai_result(r)
      [] p = "xai"        -> xai_result(r)

\* The message lists tried: up to MaxMessages messages of any role, the i-th
\* with the i-th text; and the system_prompt argument.
MaxMessages == 3
Roles == {"system", "user", "assistant"}
MessageTexts == <<"Alpha", "Bravo", "Charlie", "Delta">>
MessageLists ==
    UNION {{[i \in 1..n |-> [role |-> roles[i], content |-> MessageTexts[i]]] :
               roles \in [1..n -> Roles]} :
           n \in 1..MaxMessages}
SystemPrompts == {PyNone, PyStr("Base")}

VendorRequest(system, turns) == [exc |-> "none", system |-> system, turns |-> turns]

\* AnthropicInterface.generate, the loop over messages: a system message
\* sets extracted_system_prompt to its content and is skipped.
RECURSIVE anthropic_loop(_, _, _, _)
anthropic_loop(messages, i, extracted_system_prompt, anthropic_messages) ==
    IF i > Len(messages) THEN <<extracted_system_prompt, anthropic_messages>>
    ELSE LET msg == messages[i] IN
         IF msg.role = "system"
         THEN anthropic_loop(messages, i + 1, PyStr(msg.content), anthropic_messages)
         ELSE anthropic_loop(messages, i + 1, extracted_system_prompt,
                             Append(anthropic_messages, msg))

anthropic_request(messages, system_prompt) ==
    LET done == anthropic_loop(messages, 1, system_prompt, <<>>)
        final_prompt == IF Truthy(done[1]) THEN done[1] ELSE system_prompt
    IN VendorRequest(IF Truthy(final_prompt) THEN final_prompt ELSE Missing,
                     done[2])

\* GoogleInterface.generate: every message becomes a turn, of role user when
\* it is a user message or the last one and of role model otherwise; the
\* system instruction is the system_prompt argument.
google_request(messages, system_prompt) ==
    VendorRequest(IF Truthy(system_prompt) THEN system_prompt ELSE Missing,
        [i \in 1..Len(messages) |->
            [role |-> IF i = Len(messages) \/ messages[i].role = "user"
                      THEN "user" ELSE "model",
             content |-> messages[i].content]])

\* The adapters of the vendors that take the system prompt in its own slot.
SlotProviders == {"anthropic", "google"}
build_request(p, messages, system_prompt) ==
    CASE p = "anthropic" -> anthropic_request(messages, system_prompt)
      [] p = "google"    -> google_request(messages, system_prompt)

\* A float, in tenths.
PyFloat(tenths) == [t |-> "float", s |-> "", n |-> tenths]

\* model_utils.supports_thinking: the Anthropic models of MODEL_INFO that
\* support thinking; a model the table does not list does not.
AnthropicModels ==
    {"claude-sonnet-4-20250514", "claude-3-7-sonnet-20250219",
     "claude-3-5-sonnet-20241022"}
supports_thinking(model) ==
    model \in {"claude-sonnet-4-20250514", "claude-3-7-sonnet-20250219"}

\* The sampling options tried: the arguments temperature and top_p of
\* generate, and the constructor's enable_thinking and model_name.
SamplingOptions ==
    [temperature : {PyNone, PyFloat(0), PyFloat(7)},
     top_p : {PyNone, PyFloat(9)},
     enable_thinking : BOOLEAN,
     model : AnthropicModels]

ApiParams(temperature, top_p, reasoning_effort) ==
    [exc |-> "none", temperature |-> temperature, top_p |-> top_p,
     reasoning_effort |-> reasoning_effort]

\* Both options passed on when both are set (not what the code does).
sampling_params_both(s) ==
    ApiParams(IF s.temperature.t # "NoneType" THEN s.temperature ELSE Missing,
              IF s.top_p.t # "NoneType" THEN s.top_p ELSE Missing,
              Missing)

\* AnthropicInterface.__init__ and generate: a reasoning model gets
\* reasoning_effort and no sampling parameter; otherwise temperature when
\* it is not None, else top_p when it is not None.
sampling_params(s) ==
    LET self_enable_thinking == s.enable_thinking /\ supports_thinking(s.model) IN
    IF self_enable_thinking /\ supports_thinking(s.model)
    THEN ApiParams(Missing, Missing, PyStr("medium"))
    ELSE IF s.temperature.t # "NoneType"
         THEN ApiParams(s.temperature, Missing, Missing)
         ELSE IF s.top_p.t # "NoneType"
              THEN ApiParams(Missing, s.top_p, Missing)
              ELSE ApiParams(Missing, Missing, Missing)

\* The content parts of a message, by what becomes of them: "text", "image"
\* (image_base64 with data), "image_bad" (image_base64 without data),
\* "unknown" (a type no adapter knows), "video" (video_path, the upload
\* becomes ACTIVE) and "video_failed" (video_path, the upload ends FAILED).
MaxParts == 3
PartKinds == {"text", "image", "image_bad", "unknown", "video", "video_failed"}
PartLists == UNION {[1..n -> PartKinds] : n \in 1..MaxParts}

\* An item of the vendor payload: its kind and the authored parts it is
\* made of ("raw": the part passed on as it is; "filler": the empty text
\* that stands for an empty payload).
Item(kind, src) == [kind |-> kind, src |-> src]
Payload(items) == [exc |-> "none", payload |-> items]

\* GoogleInterface._parse_content_for_gemini
RECURSIVE gemini_loop(_, _, _)
gemini_loop(content, i, parts) ==
    IF i > Len(content) THEN parts
    ELSE LET part_type == content[i] IN
         CASE part_type \in {"text", "image", "video"} ->
                 gemini_loop(content, i + 1, Append(parts, Item(part_type, <<i>>)))
           [] part_type = "video_failed" -> parts       \* return parts
           [] OTHER -> gemini_loop(content, i + 1, parts)
_parse_content_for_gemini(content) == gemini_loop(content, 1, <<>>)

\* XAIInterface._process_message_content: the texts are collected apart
\* and put in front as one item; an image_base64 part is passed on with
\* whatever data it has.
RECURSIVE xai_loop(_, _, _, _)
xai_loop(content, i, processed_content, text_parts) ==
    IF i > Len(content)
    THEN LET merged == IF text_parts # <<>>
                       THEN <<Item("text", text_parts)>> \o processed_content
                       ELSE processed_content
         IN IF merged # <<>> THEN merged ELSE <<Item("filler", <<>>)>>
    ELSE LET part_type == content[i] IN
         CASE part_type = "text" ->
                 xai_loop(content, i + 1, processed_content, Append(text_parts, i))
           [] part_type \in {"image", "image_bad"} ->
                 xai_loop(content, i + 1,
                          Append(processed_content, Item("image", <<i>>)), text_parts)
           [] OTHER -> xai_loop(content, i + 1, processed_content, text_parts)
xai_process_message_content(content) == xai_loop(content, 1, <<>>, <<>>)

\* OpenAIInterface._process_message_content: a part of another type is
\* passed on as it is.
RECURSIVE openai_loop(_, _, _)
openai_loop(content, i, processed_content) ==
    IF i > Len(content) THEN processed_content
    ELSE LET part_type == content[i] IN
         CASE part_type \in {"text", "image"} ->
                 openai_loop(content, i + 1,
                             Append(processed_content, Item(part_type, <<i>>)))
           [] part_type = "image_bad" -> openai_loop(content, i + 1, processed_content)
           [] OTHER -> openai_loop(content, i + 1,
                                   Append(processed_content, Item("raw", <<i>>)))
openai_process_message_content(content) == openai_loop(content, 1, <<>>)

\* AnthropicInterface._process_message_content
RECURSIVE anthropic_content_loop(_, _, _)
anthropic_content_loop(content, i, processed_content) ==
    IF i > Len(content)
    THEN IF processed_content # <<>> THEN processed_content
         ELSE <<Item("filler", <<>>)>>
    ELSE LET part_type == content[i] IN
         IF part_type \in {"text", "image"}
         THEN anthropic_content_loop(content, i + 1,
                  Append(processed_content, Item(part_type, <<i>>)))
         ELSE anthropic_content_loop(content, i + 1, processed_content)
anthropic_process_message_content(content) == anthropic_content_loop(content, 1, <<>>)

\* TogetherAIInterface._process_message_content
RECURSIVE togetherai_loop(_, _, _)
togetherai_loop(content, i, processed_content) ==
    IF i > Len(content)
    THEN IF processed_content # <<>> THEN processed_content
         ELSE <<Item("filler", <<>>)>>
    ELSE LET part_type == content[i] IN
         CASE part_type = "text" ->
                 togetherai_loop(content, i + 1,
                                 Append(processed_content, Item("text", <<i>>)))
           [] part_type \in {"image", "image_bad"} ->
                 togetherai_loop(content, i + 1,
                                 Append(processed_content, Item("image", <<i>>)))
           [] OTHER -> togetherai_loop(content, i + 1, processed_content)
togetherai_process_message_content(content) == togetherai_loop(content, 1, <<>>)

convert_parts(p, content) ==
    CASE p = "openai"     -> Payload(openai_process_message_content(content))
      [] p = "anthropic"  -> Payload(anthropic_process_message_content(content))
      [] p = "google"     -> Payload(_parse_content_for_gemini(content))
      [] p = "togetherai" -> Payload(togetherai_process_message_content(content))
      [] p = "xai"        -> Payload(xai_process_message_content(content))

\* The inputs of one stage.  The fields a stage does not read keep their
\* default.
NoSampling ==
    [temperature |-> PyNone, top_p |-> PyNone, enable_thinking |-> FALSE,
     model |-> "claude-3-5-sonnet-20241022"]
AdapterInput(op, response, messages, system_prompt, sampling, parts) ==
    [op |-> op, response |-> response, messages |-> messages,
     system_prompt |-> system_prompt, sampling |-> sampling, parts |-> parts]
NoResponse ==
    [text |-> PyStr(""), choices |-> FALSE, usage |-> "absent", model |-> "other"]
IdleInput == AdapterInput("none", NoResponse, <<>>, PyNone, NoSampling, <<>>)

ResultInputs ==
    {AdapterInput("result", r, <<>>, PyNone, NoSampling, <<>>) : r \in ResponseShapes}
SamplingInputs ==
    {AdapterInput("sampling", NoResponse, <<>>, PyNone, s, <<>>) :
        s \in SamplingOptions}
PartsInputs ==
    {AdapterInput("parts", NoResponse, <<>>, PyNone, NoSampling, c) :
        c \in PartLists}
CallInputs == {AdapterInput("call", NoResponse, <<>>, PyNone, NoSampling, <<>>)}
MessageInputs ==
    {AdapterInput("messages", NoResponse, c[1], c[2], NoSampling, <<>>) :
        c \in MessageLists \X SystemPrompts}

AdapterIdle ==
    /\ provider = "none"
    /\ adapter_pc = "idle"
    /\ adapter_in = IdleInput
    /\ adapter_out = NoResult

\* generate, from the vendor's response to the returned dictionary
BuildResult ==
    /\ adapter_pc = "start"
    /\ adapter_in.op = "result"
    /\ adapter_out' = build_result(provider, adapter_in.response)
    /\ adapter_pc' = IF adapter_out'.exc = "none" THEN "returned" ELSE "raised"
    /\ UNCHANGED <<provider, adapter_in>>

\* AnthropicInterface.generate, the sampling parameters of the request
ChooseSampling ==
    /\ adapter_pc = "start"
    /\ adapter_in.op = "sampling"
    /\ adapter_out' = sampling_params(adapter_in.sampling)
    /\ adapter_pc' = "returned"
    /\ UNCHANGED <<provider, adapter_in>>

\* _process_message_content / _parse_content_for_gemini on the content
\* parts of one user message
ConvertParts ==
    /\ adapter_pc = "start"
    /\ adapter_in.op = "parts"
    /\ adapter_out' = convert_parts(provider, adapter_in.parts)
    /\ adapter_pc' = "returned"
    /\ UNCHANGED <<provider, adapter_in>>

\* generate reaches its vendor call: GoogleInterface calls
\* _generate_content_with_retry (max_retries = 1), the other adapters call
\* the vendor's client themselves.
UsesRetryHelper(p) == p = "google"
StartCall ==
    /\ adapter_pc = "start"
    /\ adapter_in.op = "call"
    /\ IF UsesRetryHelper(provider)
       THEN /\ adapter_pc' = "helper"
            /\ retry_pc' = "call"
       ELSE /\ adapter_pc' = "call"
            /\ UNCHANGED retry_pc
    /\ UNCHANGED <<provider, adapter_in, adapter_out, attempt, vendor_calls,
                   sleeps, retry_out, max_retries>>

\* The helper has returned or raised: generate goes on with its response,
\* or the error leaves generate.
HelperDone ==
    /\ adapter_pc = "helper"
    /\ retry_pc \in {"returned", "raised"}
    /\ adapter_pc' = retry_pc
    /\ adapter_out' = retry_out
    /\ UNCHANGED <<provider, adapter_in, retryVars>>

\* response = self.client...create(...)
DirectReturns ==
    /\ adapter_pc = "call"
    /\ LET r == VendorResponse(Len(vendor_calls) + 1) IN
       /\ vendor_calls' = Append(vendor_calls, r)
       /\ adapter_out' = r
    /\ adapter_pc' = "returned"
    /\ UNCHANGED <<provider, adapter_in, retry_pc, attempt, sleeps, retry_out,
                   max_retries>>

\* except Exception as e: logger.error(...); raise
DirectRaises ==
    /\ adapter_pc = "call"
    /\ \E msg \in ErrorMessages :
         LET e == VendorError(Len(vendor_calls) + 1, msg) IN
         /\ vendor_calls' = Append(vendor_calls, e)
         /\ adapter_out' = e
    /\ adapter_pc' = "raised"
    /\ UNCHANGED <<provider, adapter_in, retry_pc, attempt, sleeps, retry_out,
                   max_retries>>

\* generate, from the messages argument to the vendor's turn list and
\* system slot
BuildRequest ==
    /\ adapter_pc = "start"
    /\ adapter_in.op = "messages"
    /\ adapter_out' = build_request(provider, adapter_in.messages,
                                    adapter_in.system_prompt)
    /\ adapter_pc' = "returned"
    /\ UNCHANGED <<provider, adapter_in>>

-----------------------------------------------------------------------------
vars == <<parseVars, retryVars, ctlVars, adapterVars>>

\* parse_actions on its own
InitParse == ParseInit /\ RetryIdle /\ CtlIdle /\ AdapterIdle
NextParse == ParseCall /\ UNCHANGED <<retryVars, ctlVars, adapterVars>>
SpecParse == InitParse /\ [][NextParse]_vars

\* _generate_content_with_retry on its own
InitRetry == ParseIdle /\ RetryInit /\ CtlIdle /\ AdapterIdle
NextRetry ==
    \/ VendorReturns /\ UNCHANGED <<parseVars, ctlVars, adapterVars>>
    \/ VendorRaises /\ UNCHANGED <<parseVars, ctlVars, adapterVars>>
    \/ RetrySleep /\ UNCHANGED <<parseVars, ctlVars, adapterVars>>
SpecRetry == InitRetry /\ [][NextRetry]_vars

\* run_one_game; parse_actions may also be called on its own with any text
Init ==
    \/ ParseIdle /\ RetryIdle /\ CtlInit /\ AdapterIdle
    \/ ParseInit /\ RetryIdle /\ CtlIdle /\ AdapterIdle
Next ==
    \/ ParseCall /\ UNCHANGED <<retryVars, ctlVars, adapterVars>>
    \/ FindCanvas /\ UNCHANGED <<parseVars, retryVars, adapterVars>>
    \/ CanvasNotFound /\ UNCHANGED <<parseVars, retryVars, adapterVars>>
    \/ BudgetReached /\ UNCHANGED <<parseVars, retryVars, adapterVars>>
    \/ Observe /\ UNCHANGED <<parseVars, retryVars, adapterVars>>
    \/ Pause /\ UNCHANGED <<parseVars, retryVars, adapterVars>>
    \/ Generate /\ UNCHANGED <<parseVars, retryVars, adapterVars>>
    \/ GenerateRaises /\ UNCHANGED <<parseVars, retryVars, adapterVars>>
    \/ CheckEnded /\ UNCHANGED <<parseVars, retryVars, adapterVars>>
    \/ Restart /\ UNCHANGED <<parseVars, retryVars, adapterVars>>
    \/ ParsePlan /\ UNCHANGED <<parseVars, retryVars, adapterVars>>
    \/ Resume /\ UNCHANGED <<parseVars, retryVars, adapterVars>>
    \/ SegmentStart /\ UNCHANGED <<parseVars, retryVars, adapterVars>>
    \/ InstantActions /\ UNCHANGED <<parseVars, retryVars, adapterVars>>
    \/ HoldActions /\ UNCHANGED <<parseVars, retryVars, adapterVars>>
    \/ NoopSleep /\ UNCHANGED <<parseVars, retryVars, adapterVars>>
    \/ SegmentEnd /\ UNCHANGED <<parseVars, retryVars, adapterVars>>
    \/ LogStep /\ UNCHANGED <<parseVars, retryVars, adapterVars>>
    \/ Finally /\ UNCHANGED <<parseVars, retryVars, adapterVars>>
Spec == Init /\ [][Next]_vars

\* run_one_game when every call of interface.generate returns.  The loop is
\* one thread: a step that can be taken is taken.
InitLive == ParseIdle /\ RetryIdle /\ CtlInit /\ AdapterIdle
NextLive ==
    \/ FindCanvas /\ UNCHANGED <<parseVars, retryVars, adapterVars>>
    \/ CanvasNotFound /\ UNCHANGED <<parseVars, retryVars, adapterVars>>
    \/ BudgetReached /\ UNCHANGED <<parseVars, retryVars, adapterVars>>
    \/ Observe /\ UNCHANGED <<parseVars, retryVars, adapterVars>>
    \/ Pause /\ UNCHANGED <<parseVars, retryVars, adapterVars>>
    \/ Generate /\ UNCHANGED <<parseVars, retryVars, adapterVars>>
    \/ CheckEnded /\ UNCHANGED <<parseVars, retryVars, adapterVars>>
    \/ Restart /\ UNCHANGED <<parseVars, retryVars, adapterVars>>
    \/ ParsePlan /\ UNCHANGED <<parseVars, retryVars, adapterVars>>
    \/ Resume /\ UNCHANGED <<parseVars, retryVars, adapterVars>>
    \/ SegmentStart /\ UNCHANGED <<parseVars, retryVars, adapterVars>>
    \/ InstantActions /\ UNCHANGED <<parseVars, retryVars, adapterVars>>
    \/ HoldActions /\ UNCHANGED <<parseVars, retryVars, adapterVars>>
    \/ NoopSleep /\ UNCHANGED <<parseVars, retryVars, adapterVars>>
    \/ SegmentEnd /\ UNCHANGED <<parseVars, retryVars, adapterVars>>
    \/ LogStep /\ UNCHANGED <<parseVars, retryVars, adapterVars>>
    \/ Finally /\ UNCHANGED <<parseVars, retryVars, adapterVars>>
SpecLive == InitLive /\ [][NextLive]_vars /\ WF_vars(NextLive)

\* one call of a provider adapter, stage by stage
AdapterCases ==
    (Providers \X ResultInputs)
    \cup (SlotProviders \X MessageInputs)
    \cup ({"anthropic"} \X SamplingInputs)
    \cup (Providers \X PartsInputs)
    \cup (Providers \X CallInputs)
AdapterInit ==
    /\ \E c \in AdapterCases : provider = c[1] /\ adapter_in = c[2]
    /\ adapter_pc = "start"
    /\ adapter_out = NoResult
InitAdapter == ParseIdle /\ RetryIdle /\ CtlIdle /\ AdapterInit
NextAdapter ==
    \/ BuildResult /\ UNCHANGED <<parseVars, retryVars, ctlVars>>
    \/ BuildRequest /\ UNCHANGED <<parseVars, retryVars, ctlVars>>
    \/ ChooseSampling /\ UNCHANGED <<parseVars, retryVars, ctlVars>>
    \/ ConvertParts /\ UNCHANGED <<parseVars, retryVars, ctlVars>>
    \/ StartCall /\ UNCHANGED <<parseVars, ctlVars>>
    \/ VendorReturns /\ UNCHANGED <<parseVars, ctlVars, adapterVars>>
    \/ VendorRaises /\ UNCHANGED <<parseVars, ctlVars, adapterVars>>
    \/ RetrySleep /\ UNCHANGED <<parseVars, ctlVars, adapterVars>>
    \/ HelperDone /\ UNCHANGED <<parseVars, ctlVars>>
    \/ DirectReturns /\ UNCHANGED <<parseVars, ctlVars>>
    \/ DirectRaises /\ UNCHANGED <<parseVars, ctlVars>>
SpecAdapter == InitAdapter /\ [][NextAdapter]_vars

-----------------------------------------------------------------------------
(***************************************************************************)
(* Properties of parse_actions                                             *)
(***************************************************************************)

\* What json.loads makes of the <keys> block of a text.
Loaded(text) == json_loads(NormalizeQuotes(strip(re_search(text).group1)))
HasArrayBlock(text) ==
    re_search(text).found /\ Loaded(text).ok /\ Loaded(text).val.t = "list"
\* No <keys> block, or a block that is no JSON even with its quotes replaced.
FailsOpen(text) == ~re_search(text).found \/ ~Loaded(text).ok

FiveNoops == << <<None>>, <<None>>, <<None>>, <<None>>, <<None>> >>

\* C1: for every input text parse_actions returns a plan of exactly 5
\* segments.
C1_AlwaysFiveSegments ==
    parse_pc = "returned" => Len(parse_result.value) = 5

\* The answers of a run that have no <keys> block or no JSON in it.
FailOpenOutputs == {text \in ModelOutputs : FailsOpen(text)}

\* C2: parse_actions never raises; for a text without a <keys> block, or
\* with a block that is no valid JSON after the quote replacement, it returns
\* 5 NOOP segments, and the cycle of the loop goes on to resume the game and
\* act on that plan.
C2_FailsOpenAndGoesOn ==
    /\ parse_pc # "raised"
    /\ actions.exc \in {"pending", "none"}
    /\ (parse_pc = "returned" /\ FailsOpen(response_text))
          => parse_result = Return(FiveNoops)
    /\ (actions.exc = "none" /\ assistant_output_text \in FailOpenOutputs)
          => /\ actions.value = FiveNoops
             /\ pc \in {"resume", "segment", "instants", "holds", "noop",
                        "segment_end", "log"}
    /\ (pc \in {"resume", "segment", "instants", "holds", "noop", "segment_end"})
          => actions.exc = "none"

C2_Witness ==
    /\ pc = "segment_end"
    /\ segment_idx = 4
    /\ assistant_output_text \in FailOpenOutputs
    /\ re_search(assistant_output_text).found

\* C3: for a block holding a JSON array of n segments, the plan has 5
\* segments, segment i of the plan is the parse of segment i of the array for
\* i < min(n, 5), every later segment is a NOOP segment, and segments of the
\* array past the fifth are dropped.
C3_PadTruncateInOrder ==
    (parse_pc = "returned" /\ HasArrayBlock(response_text)) =>
        LET segs == Loaded(response_text).val.items
            out  == parse_result.value
        IN  /\ Len(out) = 5
            /\ \A i \in 1..5 :
                 out[i] = IF i <= Len(segs) THEN ParseSegment(segs[i]) ELSE <<None>>

C3_Witness ==
    /\ parse_pc = "returned"
    /\ HasArrayBlock(response_text)
    /\ Len(Loaded(response_text).val.items) = 6
    /\ parse_result.value[1] = <<Key(38)>>
    /\ parse_result.value[2] = <<None>>
    /\ parse_result.value[5] = <<Hold(37), Key(82)>>
    /\ Loaded(response_text).val.items[6] = JList(<<JStr("UP")>>)

\* C4 as stated: a NOOP segment of the plan (from the token NOOP, from
\* padding or from the fail-open path) is an empty segment.
C4_NoopSegmentIsEmpty ==
    parse_pc = "returned" =>
        /\ response_text = ExampleFive =>
              parse_result.value = << <<Key(38)>>, <<Key(37), Key(39)>>, <<>>,
                                      <<Hold(32)>>, <<Key(82)>> >>
        /\ response_text = ExampleOne =>
              parse_result.value = << <<Key(38)>>, <<>>, <<>>, <<>>, <<>> >>
        /\ FailsOpen(response_text) =>
              parse_result.value = << <<>>, <<>>, <<>>, <<>>, <<>> >>

\* C4, amended: a NOOP segment of the plan (from the token NOOP, from padding
\* or from the fail-open path) is the one-element segment holding None, not
\* an empty segment: the five-segment example yields
\* [[38],[37,39],[None],[("HOLD",32)],[82]] and [["UP"]] yields
\* [[38],[None],[None],[None],[None]].
C4_NoopSegmentHoldsNone ==
    parse_pc = "returned" =>
        /\ response_text = ExampleFive =>
              parse_result.value = << <<Key(38)>>, <<Key(37), Key(39)>>, <<None>>,
                                      <<Hold(32)>>, <<Key(82)>> >>
        /\ response_text = ExampleOne =>
              parse_result.value = << <<Key(38)>>, <<None>>, <<None>>, <<None>>,
                                      <<None>> >>
        /\ FailsOpen(response_text) => parse_result.value = FiveNoops
        /\ HasArrayBlock(response_text) =>
              LET segs == Loaded(response_text).val.items IN
              \A i \in 1..5 :
                 \/ i > Len(segs) /\ parse_result.value[i] = <<None>>
                 \/ i <= Len(segs) /\
                      (segs[i] \in {JList(<<JStr(w)>>) : w \in {"NOOP", "noop", "Noop"}}
                          => parse_result.value[i] = <<None>>)

C4_Witness ==
    /\ parse_pc = "returned"
    /\ response_text = ExampleFive
    /\ parse_result.value[3] = <<None>>

(***************************************************************************)
(* Properties of the plan's execution                                      *)
(***************************************************************************)

\* The key codes of the wire format: UP, DOWN, LEFT, RIGHT, SPACE, ENTER,
\* the letters, and the five held keys.
WireCodes == {38, 40, 37, 39, 32, 13} \cup (65..90)

IsKeyEvent(e) == e.ev \in {"press", "down", "up"}

\* C5: a token outside the wire format is dropped and causes no key event:
\* every key the scheduler sends is a key of the wire format, and the only
\* Escape presses of a cycle are the loop's own pause and resume presses.
C5_OnlyWireKeysSent ==
    \A i \in 1..Len(events) :
        IsKeyEvent(events[i]) =>
            /\ events[i].by = "scheduler" => events[i].arg \in WireCodes
            /\ events[i].arg = 27 => events[i].by = "controller"

\* The events of segment k of the plan, and among them the key events and
\* the waits of one segment duration.
SegEvents(k) == SelectSeq(events, LAMBDA e : e.by = "scheduler" /\ e.seg = k)
KeyTrace(k) ==
    SelectSeq(SegEvents(k),
              LAMBDA e : IsKeyEvent(e) \/ (e.ev = "sleep" /\ e.arg = 200))
Completed(k) == \E i \in 1..Len(events) : events[i] = Ev("shot", 0, k, "scheduler")
Errored(k)   == \E i \in 1..Len(events) :
                    events[i].by = "scheduler" /\ events[i].seg = k /\ events[i].ev = "error"

RECURSIVE IsSubseq(_, _)
IsSubseq(a, b) ==
    IF a = <<>> THEN TRUE
    ELSE IF b = <<>> THEN FALSE
    ELSE IF Head(a) = Head(b) THEN IsSubseq(Tail(a), Tail(b))
    ELSE IsSubseq(a, Tail(b))

\* What segment k sends when no call fails: its instant keys one by one in
\* the listed order, then all held keys down, the wait, all held keys up.
ExpectedTrace(segment, k) ==
    LET ins == SelectSeq(segment, LAMBDA a : a.t = "key")
        hs  == SelectSeq(segment, LAMBDA a : a.t = "HOLD")
        E(ev, arg) == Ev(ev, arg, k, "scheduler")
    IN  [i \in 1..Len(ins) |-> E("press", ins[i].c)]
        \o (IF hs = <<>> THEN <<>>
            ELSE [i \in 1..Len(hs) |-> E("down", hs[i].c)]
                 \o <<E("sleep", 200)>>
                 \o [i \in 1..Len(hs) |-> E("up", hs[i].c)])
        \o (IF ins = <<>> /\ hs = <<>> THEN <<E("sleep", 200)>> ELSE <<>>)

\* C9: the segments run in index order; in a segment every instant key is
\* pressed and released one at a time, in the listed order, before any held
\* key goes down; every key-down of the held keys comes before every key-up,
\* with the wait of one segment duration between the last down and the first
\* up.
C9_SegmentOrder ==
    LET sched == SelectSeq(events, LAMBDA e : e.by = "scheduler") IN
    /\ \A i \in 1..Len(sched) :
          /\ sched[i].seg \in 0..4
          /\ i > 1 => sched[i - 1].seg <= sched[i].seg
    /\ \A k \in 0..4 :
          LET t == KeyTrace(k) IN
          /\ Completed(k) => \A j \in 0..k : Completed(j)
          /\ LET At(kind) == {i \in 1..Len(t) : t[i].ev = kind}
                 presses == At("press")
                 downs   == At("down")
                 ups     == At("up")
             IN  /\ \A p \in presses : \A h \in downs \cup ups : p < h
                 /\ \A d \in downs : \A u \in ups : d < u
                 /\ ups # {} =>
                       \E m \in At("sleep") :
                           /\ \A d \in downs : d < m
                           /\ \A u \in ups : m < u
          /\ (actions.exc = "none" /\ k < Len(actions.value)) =>
                /\ IsSubseq(t, ExpectedTrace(actions.value[k + 1], k))
                /\ (Completed(k) /\ ~Errored(k)) =>
                       t = ExpectedTrace(actions.value[k + 1], k)

C9_Witness ==
    /\ pc = "log"
    /\ segment_idx = 5
    /\ faults = 0
    /\ Len(SelectSeq(KeyTrace(0), LAMBDA e : e.ev = "down")) = 2
    /\ Len(SelectSeq(KeyTrace(0), LAMBDA e : e.ev = "press")) = 1
    /\ Len(SelectSeq(KeyTrace(4), LAMBDA e : e.ev = "press")) = 3

RECURSIVE SleptIn(_)
SleptIn(evs) ==
    IF evs = <<>> THEN 0
    ELSE (IF Head(evs).ev = "sleep" THEN Head(evs).arg ELSE 0) + SleptIn(Tail(evs))

\* C10: every segment of the plan, whatever it holds, takes at least the
\* segment duration of 0.2 s before the next one starts, so a plan of five
\* segments takes at least 5 x 0.2 s.
C10_SegmentTakesItsDuration ==
    /\ \A k \in 0..4 : Completed(k) => SleptIn(SegEvents(k)) >= 200
    /\ Completed(4) =>
          SleptIn(SelectSeq(events, LAMBDA e : e.by = "scheduler")) >= 5 * 200

(***************************************************************************)
(* Properties of _generate_content_with_retry                              *)
(***************************************************************************)
IsQuotaError(c) == c.kind = "error" /\ c.msg \in QuotaMessages
Ended == retry_pc \in {"returned", "raised"}

\* C6: with max_retries = 1, when the first vendor call raises a quota error
\* and the second succeeds, the helper returns the second call's response,
\* having made exactly two vendor calls and slept retry_delay exactly once,
\* between the two.
C6_RetryOnceThenReturn ==
    (max_retries = 1 /\ Len(vendor_calls) >= 1 /\ IsQuotaError(vendor_calls[1])) =>
        /\ Len(vendor_calls) <= 2
        /\ Len(vendor_calls) = 2 => sleeps = <<retry_delay>>
        /\ retry_pc = "call" => sleeps = <<retry_delay>> /\ Len(vendor_calls) = 1
        /\ Ended =>
              /\ Len(vendor_calls) = 2
              /\ vendor_calls[2].kind = "response" =>
                    retry_pc = "returned" /\ retry_out = vendor_calls[2]

C6_Witness ==
    /\ max_retries = 1
    /\ retry_pc = "returned"
    /\ Len(vendor_calls) = 2
    /\ IsQuotaError(vendor_calls[1])
    /\ retry_out = VendorResponse(2)
    /\ sleeps = <<retry_delay>>

\* C7: the helper makes at most max_retries + 1 vendor calls and sleeps at
\* most max_retries times; with max_retries = 1 and two quota errors in a row
\* it raises the second error itself, after exactly one retry.
C7_BoundedRetries ==
    /\ Len(vendor_calls) <= max_retries + 1
    /\ Len(sleeps) <= max_retries
    /\ retry_pc = "raised" =>
          /\ retry_out = vendor_calls[Len(vendor_calls)]
          /\ retry_out.kind = "error"
    /\ (max_retries = 1 /\ Len(vendor_calls) = 2 /\ IsQuotaError(vendor_calls[1])
          /\ IsQuotaError(vendor_calls[2])) =>
          /\ retry_pc = "raised"
          /\ retry_out = vendor_calls[2]
          /\ Len(sleeps) = 1

C7_Witness ==
    /\ max_retries = 1
    /\ retry_pc = "raised"
    /\ Len(vendor_calls) = 2
    /\ IsQuotaError(vendor_calls[1])
    /\ IsQuotaError(vendor_calls[2])
    /\ vendor_calls[1].msg # vendor_calls[2].msg

\* C8: an error is retried if and only if its message, in lower case, holds
\* one of quota, rate limit, rate_limit, 429, resource exhausted, too many
\* requests (and a retry is left); any other error is raised again unchanged
\* by the attempt it occurs in, with no sleep and no further vendor call.
C8_RetryableIffQuotaMessage ==
    \A i \in 1..Len(vendor_calls) :
        LET e == vendor_calls[i]
            retried == i < Len(vendor_calls) \/ retry_pc \in {"sleep", "call"}
        IN  e.kind = "error" =>
              /\ i - 1 < max_retries => (retried <=> e.msg \in QuotaMessages)
              /\ e.msg \in OtherMessages =>
                    /\ i = Len(vendor_calls)
                    /\ retry_pc = "raised"
                    /\ retry_out = e
                    /\ Len(sleeps) = i - 1

C8_Witness ==
    /\ retry_pc = "raised"
    /\ Len(vendor_calls) = 2
    /\ vendor_calls[1].msg = <<"R","A","T","E"," ","L","I","M","I","T"," ","r","e","a","c","h","e","d">>
    /\ vendor_calls[2].msg = <<"r","a","t","e","-","l","i","m","i","t">>
    /\ max_retries = 2
    /\ Len(sleeps) = 1

(***************************************************************************)
(* Properties of the loop's counters                                       *)
(***************************************************************************)
ControllerChecks(evs) ==
    Len(SelectSeq(evs, LAMBDA e : e.by = "controller" /\ e.ev = "check"))

\* C11: in a cycle where the game is seen ended at the check before the
\* pause, at the check after the model call, or at both, episode_count grows
\* by exactly 1, step_count is reset to 0 and frame_history and
\* last_render_frames are emptied; when both checks are false episode_count
\* stays.  episode_count changes nowhere else, and the end handling runs once
\* in a cycle (after the cycle's first check only).
C11_EpisodeAdvancesOnce ==
    [][ /\ (pc = "check_ended" /\ pc' # pc) =>
             IF game_ended' \/ game_ended_before_pause
             THEN /\ episode_count' = episode_count + 1
                  /\ step_count' = 0
                  /\ frame_history' = <<>>
                  /\ last_render_frames' = <<>>
             ELSE /\ episode_count' = episode_count
                  /\ UNCHANGED <<step_count, frame_history, last_render_frames>>
        /\ episode_count' # episode_count =>
             /\ pc = "check_ended"
             /\ ControllerChecks(events) = 1
             /\ ControllerChecks(events') >= 2
      ]_vars

C11_Witness ==
    /\ pc = "restart"
    /\ game_ended_before_pause
    /\ game_ended
    /\ episode_count = 2
    /\ step_count = 0
    /\ successful_api_calls = 2
    /\ Len(last_executed_actions) > 0
    /\ frame_history = <<>>
    /\ last_render_frames = <<>>

\* C12: successful_api_calls never exceeds the budget max_seconds, it grows
\* by one and only when interface.generate returns, no cycle starts once it
\* equals the budget, and when every generate call returns the loop ends
\* after exactly max_seconds cycles (one user and one assistant entry logged
\* per cycle).
C12_BudgetBoundsCalls ==
    /\ [](successful_api_calls <= max_seconds)
    /\ [][ /\ (pc = "loop" /\ pc' = "observe") => successful_api_calls < max_seconds
           /\ successful_api_calls' # successful_api_calls =>
                 /\ pc = "generate"
                 /\ successful_api_calls' = successful_api_calls + 1
         ]_vars
    /\ <>[](/\ pc = "done"
            /\ successful_api_calls = max_seconds
            /\ Len(full_content_history) = 2 * max_seconds)

C12_Witness ==
    /\ pc = "done"
    /\ successful_api_calls = max_seconds
    /\ Len(full_content_history) = 2 * max_seconds
    /\ faults = MaxFaults

(***************************************************************************)
(* Properties of the model call                                            *)
(***************************************************************************)
GenerateCalls(evs) == SelectSeq(evs, LAMBDA e : e.ev = "generate")
AfterGenerate ==
    {"check_ended", "restart", "parse", "resume", "segment", "instants",
     "holds", "noop", "segment_end", "log"}

\* C13: in every cycle the loop calls interface.generate exactly once, and
\* the messages argument holds exactly one message, the user message of the
\* cycle, however many entries the archival history has.
C13_OneCallOneMessage ==
    LET calls == GenerateCalls(events) IN
    /\ Len(calls) <= 1
    /\ pc \in {"observe", "pause", "generate"} => Len(calls) = 0
    /\ pc \in AfterGenerate =>
          /\ Len(calls) = 1
          /\ Len(full_content_history) >= 2 * successful_api_calls - 1
    /\ \A i \in 1..Len(calls) : calls[i].arg = 1

C13_Witness ==
    /\ pc = "check_ended"
    /\ successful_api_calls = 2
    /\ Len(full_content_history) = 3
    /\ GenerateCalls(events) = <<CtlEv("generate", 1)>>

(***************************************************************************)
(* Properties of the loop's end                                            *)
(***************************************************************************)

\* C14: the loop ends before the budget is reached only on an error that
\* cannot be recovered from (of the provider: a refused key); a malformed
\* plan or a missing canvas never ends it, and a tick without canvas makes no
\* model call, leaves the counters alone and is followed by the next tick.
C14_EndsEarlyOnlyOnFatalError ==
    /\ (pc \in {"finally", "done"} /\ successful_api_calls < max_seconds)
          => run_error = "auth"
    /\ actions.exc \in {"pending", "none"}
    /\ (Len(events) > 0 /\ events[1] = CtlEv("error", 0)) =>
          /\ pc = "loop"
          /\ GenerateCalls(events) = <<>>

(***************************************************************************)
(* Properties of the restart                                               *)
(***************************************************************************)
\* The loop's read after the restart saw the game still ended.
StillEndedSeen ==
    \E i \in 1..Len(events) : events[i] = CtlEv("check", 1)

EnterAfterR ==
    \A i \in 1..Len(events) :
        (events[i].by = "restart" /\ events[i].arg = ENTER) =>
            /\ \E j \in 1..(i - 1) :
                  /\ events[j].by = "restart"
                  /\ events[j].arg = KEY_R
                  /\ events[j].ev \in {"press", "down", "error"}
            /\ events[i].ev = "down" =>
                  \E j \in 1..(i - 1) : events[j] = Ev("down", KEY_R, -1, "restart")

\* C15: when the read after the restart still sees the game ended the loop
\* does not stop: the cycle goes on to the parse, is logged, and the loop is
\* back at its head, where the next cycle starts while budget is left; and
\* in the restart sequence Enter is sent only after R has been tried.
C15_StillEndedGoesOn ==
    /\ [](EnterAfterR)
    /\ []((StillEndedSeen /\ pc \in {"finally", "done"}) =>
             (step_count = 1 /\ successful_api_calls = max_seconds))
    /\ (StillEndedSeen /\ pc = "parse") ~> (pc = "loop" /\ step_count = 1)
    /\ (StillEndedSeen /\ pc = "parse" /\ successful_api_calls < max_seconds)
          ~> (pc = "observe" /\ step_count = 1)

C15_Witness ==
    /\ pc = "loop"
    /\ step_count = 1
    /\ successful_api_calls = 1
    /\ StillEndedSeen
    /\ \E i \in 1..Len(events) : events[i] = Ev("down", ENTER, -1, "restart")
    /\ \E i \in 1..Len(events) : events[i] = Ev("shot", 0, 4, "scheduler")


-----------------------------------------------------------------------------
TokenFields == {"input_tokens", "output_tokens", "total_tokens"}
VendorOmitsUsage == adapter_in.response.usage # "full"
ResultBuilt == adapter_in.op = "result" /\ adapter_pc = "returned"

\* C16: whatever the provider and the shape of the vendor's response, the
\* returned result's output is a string and never null, its three token
\* counts are present, and they are 0 when the vendor omitted the usage data.
C16_OutputStringUsageDefaulted ==
    ResultBuilt =>
        /\ adapter_out.output.t = "str"
        /\ \A f \in TokenFields : adapter_out.token_usage[f].t = "int"
        /\ VendorOmitsUsage =>
              \A f \in TokenFields : adapter_out.token_usage[f] = PyInt(0)


-----------------------------------------------------------------------------
RequestBuilt == adapter_in.op = "messages" /\ adapter_pc = "returned"
Contents(ms) == [i \in 1..Len(ms) |-> ms[i].content]
SystemMessages(ms) == SelectSeq(ms, LAMBDA msg : msg.role = "system")
TurnMessages(ms)   == SelectSeq(ms, LAMBDA msg : msg.role # "system")
RECURSIVE Join(_, _)
Join(texts, sep) ==
    IF texts = <<>> THEN ""
    ELSE IF Len(texts) = 1 THEN texts[1]
    ELSE texts[1] \o sep \o Join(Tail(texts), sep)
Separators == {" ", "\n", "\n\n"}
SlotText(v) == IF v.t = "str" THEN v.s ELSE ""
\* What the slot may hold: the system messages' texts joined, after the
\* system_prompt argument when there is one.
HoistedTexts(ms, system_prompt) ==
    {Join(Contents(SystemMessages(ms)), sep) : sep \in Separators}
    \cup (IF system_prompt.t = "str"
          THEN {Join(<<system_prompt.s>> \o Contents(SystemMessages(ms)), sep) :
                   sep \in Separators}
          ELSE {})

\* C17: for a vendor with a system slot, the turn list is the message list
\* without its system messages, in order, and when the list holds system
\* messages the slot holds all their texts in order joined by one separator.
C17_SystemMessagesHoistedAndJoined ==
    RequestBuilt =>
        /\ Contents(adapter_out.turns) = Contents(TurnMessages(adapter_in.messages))
        /\ SystemMessages(adapter_in.messages) # <<>> =>
              SlotText(adapter_out.system) \in
                  HoistedTexts(adapter_in.messages, adapter_in.system_prompt)


-----------------------------------------------------------------------------
SamplingChosen == adapter_in.op = "sampling" /\ adapter_pc = "returned"
IsSet(v) == v.t # "NoneType"
Sent(v)  == v.t # "missing"
ReasoningPath ==
    adapter_in.sampling.enable_thinking /\ supports_thinking(adapter_in.sampling.model)

-----------------------------------------------------------------------------
PartsConverted == adapter_in.op = "parts" /\ adapter_pc # "start"
\* The kinds an adapter has a conversion for.
Convertible(p, kind) ==
    kind \in (IF p = "google" THEN {"text", "image", "video"} ELSE {"text", "image"})
RECURSIVE AuthoredOrder(_, _, _)
AuthoredOrder(p, parts, i) ==
    IF i > Len(parts) THEN <<>>
    ELSE (IF Convertible(p, parts[i]) THEN <<<<i>>>> ELSE <<>>)
         \o AuthoredOrder(p, parts, i + 1)
Sources(items) ==
    LET kept == SelectSeq(items, LAMBDA it : it.kind # "filler")
    IN [i \in 1..Len(kept) |-> kept[i].src]

\* C19: converting a message's parts never aborts the call, and the payload
\* is the authored parts that can be converted, each as one item, in the
\* authored order: only the parts that cannot be converted are missing.
C19_OnlyBadPartsDropped ==
    PartsConverted =>
        /\ adapter_pc = "returned"
        /\ Sources(adapter_out.payload) = AuthoredOrder(provider, adapter_in.parts, 1)


-----------------------------------------------------------------------------
CallOver == adapter_in.op = "call" /\ adapter_pc \in {"returned", "raised"}

\* C20: whatever the provider, when the vendor's first answer is a quota or
\* rate-limit error, generate sleeps and calls the vendor a second time
\* before it returns or lets an error out to the controller.
C20_EveryProviderRetries ==
    (CallOver /\ IsQuotaError(vendor_calls[1])) =>
        /\ Len(vendor_calls) >= 2
        /\ Len(sleeps) >= 1


-----------------------------------------------------------------------------
\* The Escape presses the loop itself has made in the cycle so far.
EscapesIssued(evs) ==
    Cardinality({i \in DOMAIN evs :
                    /\ evs[i].by = "controller"
                    /\ evs[i].ev = "press"
                    /\ evs[i].arg = ESCAPE})
ExecutingSegment == pc \in {"instants", "holds", "noop", "segment_end"}
EndHandled == game_ended \/ game_ended_before_pause

\* C21: when the scheduler executes a segment, the loop has pressed Escape
\* an even number of times since the start of the cycle, in cycles without
\* end-of-game handling and in cycles with it, so that the game is resumed.
C21_EvenEscapesBeforePlan ==
    ExecutingSegment => EscapesIssued(events) % 2 = 0


-----------------------------------------------------------------------------
\* The places in the cycle's events of the loop's own calls of one kind.
CtlAt(evs, ev) ==
    {i \in DOMAIN evs : evs[i].by = "controller" /\ evs[i].ev = ev}
PauseAt(evs) == {i \in CtlAt(evs, "press") : evs[i].arg = ESCAPE}
Before(S, T) == \A i \in S, j \in T : i < j
ModelAnswered == pc = "check_ended"

\* C22: when the model has answered, the cycle has paused the game, then
\* taken the observation screenshot and read the score, with one
\* end-of-game check before the model call (a second one follows it): the
\* frame sent to the model is taken while the game is paused.
C22_PausedBeforeObservation ==
    ModelAnswered =>
        /\ Before(PauseAt(events), CtlAt(events, "shot"))
        /\ Before(PauseAt(events), CtlAt(events, "score"))
        /\ Cardinality(CtlAt(events, "shot")) = 1
        /\ Cardinality(CtlAt(events, "check")) = 1
        /\ Before(CtlAt(events, "check"), CtlAt(events, "generate"))



\* ---- C23 ----------------------------------------------------------------
RestartAt(evs)   == {i \in DOMAIN evs : evs[i].by = "restart"}
SchedulerAt(evs) == {i \in DOMAIN evs : evs[i].by = "scheduler"}
CycleOver == pc = "log"

\* C23: in a cycle where the end of the game was detected, the restart
\* sequence is issued after the scheduler has run the plan's segments: at
\* the end of such a cycle every event of the scheduler precedes every event
\* of the restart sequence.
C23_RestartAfterPlan ==
    (CycleOver /\ EndHandled) =>
        Before(SchedulerAt(events), RestartAt(events))



\* ---- C24 ----------------------------------------------------------------
CycleFrames == RenderFrames(frame_history, episode_count, step_count)
SegmentsRun == pc \in {"segment", "log"}
LastLogged  == gameplay_log[Len(gameplay_log)]
Saved(snapshots) == SelectSeq(snapshots, LAMBDA s : s.screenshot)

\* The names a frame of the segment is to carry.
NamesOf(segment) ==
    IF \A i \in DOMAIN segment : segment[i] = None
    THEN <<NoopName>>
    ELSE SelectSeq(segment, LAMBDA a : a # None)

\* frames holds one frame for each of the snapshots, in their order, tagged
\* with the episode, the step and the snapshot's segment index.
FramesOf(frames, snapshots, episode, step) ==
    /\ Len(frames) = Len(snapshots)
    /\ Len(frames) <= NumSegments
    /\ \A i \in DOMAIN frames :
         /\ frames[i].episode = episode
         /\ frames[i].step = step
         /\ frames[i].action_index = snapshots[i].index

\* The segments of the cycle that have been executed are 0..segment_idx-1,
\* each with one snapshot entry.
SnapshotPerSegment ==
    /\ Len(action_snapshots) = segment_idx
    /\ \A i \in DOMAIN action_snapshots : action_snapshots[i].index = i - 1

NamedAfterSegment(frames) ==
    \A i \in DOMAIN frames :
        frames[i].action_name = NamesOf(actions.value[frames[i].action_index + 1])

CycleStarts == pc \in {"loop", "observe"}
IsPrefix(s, t) == Len(s) <= Len(t) /\ SubSeq(t, 1, Len(s)) = s
RoleAt(i) == IF i % 2 = 1 THEN "user" ELSE "assistant"

\* The archive after c completed cycles: a user and an assistant entry for
\* each, in turn, holding what the cycle's entries held.
ArchiveOf(c) ==
    /\ Len(full_content_history) = 2 * c
    /\ \A i \in DOMAIN full_content_history :
         /\ full_content_history[i].role = RoleAt(i)
         /\ full_content_history[i].content = (i + 1) \div 2

\* No object of the active buffer is an object of the archive.
NoSharedEntry ==
    \A i \in DOMAIN content_history, j \in DOMAIN full_content_history :
        content_history[i] # full_content_history[j]

\* C25: content_history is empty at the start of every cycle;
\* full_content_history only grows at its end, by one user and one
\* assistant entry per completed cycle; and the archived entries are copies,
\* no object of the active buffer, so that a change of an active entry
\* leaves the archive as it is.
C25_BufferEmptyArchiveAppendOnly ==
    /\ [](CycleStarts => content_history = <<>>)
    /\ [](pc = "loop" => ArchiveOf(successful_api_calls))
    /\ [](NoSharedEntry)
    /\ [][IsPrefix(full_content_history, full_content_history')]_vars

C25_Witness ==
    /\ pc = "parse"
    /\ successful_api_calls = max_seconds
    /\ Len(content_history) = 1
    /\ Len(full_content_history) = 2 * max_seconds - 1



\* ---- C26 ----------------------------------------------------------------
\* The scratchpad block of a text: whether it has one, and what is between
\* the tags.
BlockOf(text) ==
    LET o == FirstIdx(text, "sopen", 1)
        c == IF o = 0 THEN 0 ELSE FirstIdx(text, "sclose", o + 1)
    IN  [present |-> c # 0,
         body |-> IF c = 0 THEN <<>> ELSE SubSeq(text, o + 1, c - 1)]
Blocks == [text \in ModelOutputs |-> BlockOf(text)]
IsBlank(body) == \A i \in DOMAIN body : body[i].k = "ws"

\* The step in which the loop reads the scratchpad of the cycle's output.
ScratchpadRead == pc = "parse" /\ pc' = "resume"

\* C26 as stated: the memory after a cycle is the content of the output's
\* scratchpad block as it is written when the output has one, and the
\* memory of the cycle before when it has none; no other step, a restart
\* included, changes it.
C26_VerbatimOrUnchanged ==
    [][IF ScratchpadRead
       THEN LET block == Blocks[assistant_output_text] IN
            current_scratchpad_text' =
                IF block.present THEN Text(block.body)
                ELSE current_scratchpad_text
       ELSE current_scratchpad_text' = current_scratchpad_text]_vars

\* C26, amended: when the output has a scratchpad block that is not blank,
\* the memory after the cycle is the block's content without the white
\* space around it; when it has no block or a blank one, the memory of the
\* cycle before is kept if there is one, and while there is none yet the
\* whole text of the output becomes the memory; no other step, a restart
\* included, changes it.
C26_StrippedOrKeptOrWholeOutput ==
    [][IF ScratchpadRead
       THEN LET block == Blocks[assistant_output_text] IN
            current_scratchpad_text' =
                IF block.present /\ ~IsBlank(block.body)
                THEN Text(strip(block.body))
                ELSE IF current_scratchpad_text = NoText
                THEN Text(assistant_output_text)
                ELSE current_scratchpad_text
       ELSE current_scratchpad_text' = current_scratchpad_text]_vars

\* A memory written by the first cycle from a padded block has outlived a
\* restart and a second output without a block.
C26_Witness ==
    /\ pc = "resume"
    /\ successful_api_calls = max_seconds
    /\ EndHandled
    /\ ~Blocks[assistant_output_text].present
    /\ current_scratchpad_text = Text(<<Memo("the door is on the left")>>)



\* ---- C27 ----------------------------------------------------------------
SegmentsExecuted == segment_idx
PlanLength == Len(actions.value)

\* C27: the plan of every cycle whose generate call returned is executed: at
\* the end of the cycle at least one of its segments has been run by the
\* scheduler (the budget check stops a plan part-way at most, it never
\* skips a whole plan), in the last cycle of the budget too.
C27_EveryPlanActedOn ==
    (CycleOver /\ PlanLength > 0) => SegmentsExecuted >= 1



\* ---- C28 ----------------------------------------------------------------
HeldDown(evs) ==
    {i \in DOMAIN evs : evs[i].by = "scheduler" /\ evs[i].ev = "down"}
ReleasedAfter(evs, i) ==
    \E j \in DOMAIN evs :
        /\ j > i
        /\ evs[j].ev = "up"
        /\ evs[j].by = "scheduler"
        /\ evs[j].arg = evs[i].arg
        /\ evs[j].seg = evs[i].seg

\* C28: once execute_hold_actions_playwright has returned no key it pressed
\* down is still held: every key-down it dispatched is followed by a key-up
\* of the same key in the same call, whichever of its calls failed.
C28_NoKeyLeftDown ==
    \A i \in HeldDown(events) : ReleasedAfter(events, i)



\* ---- C29 ----------------------------------------------------------------
RECURSIVE SumTo(_, _, _)
SumTo(log, field, n) ==
    IF n = 0 THEN 0 ELSE SumTo(log, field, n - 1) + log[n].token_usage[field]

\* C29: the cumulative token counters of each logged step are the sums of
\* the per-step token usage over the steps logged so far (so they never
\* decrease from step to step).
C29_CumulativeIsRunningSum ==
    \A n \in DOMAIN gameplay_log :
        LET usage == gameplay_log[n].token_usage IN
        /\ usage.cumulative_input_tokens = SumTo(gameplay_log, "input_tokens", n)
        /\ usage.cumulative_output_tokens = SumTo(gameplay_log, "output_tokens", n)
        /\ usage.cumulative_total_tokens = SumTo(gameplay_log, "total_tokens", n)



\* ---- C30 ----------------------------------------------------------------
\* The record files the logged steps were written to.
StepFiles == {<<gameplay_log[n].episode, gameplay_log[n].step>> :
                  n \in DOMAIN gameplay_log}
StepsOf(episode) ==
    {gameplay_log[n].step :
        n \in {k \in DOMAIN gameplay_log : gameplay_log[k].episode = episode}}

\* C30: the (episode, step) pairs under which the cycles are logged are
\* pairwise distinct, so that no record file is written twice, and the steps
\* logged for an episode are 0, 1, 2, ... without a gap, in this order.
C30_StepFilesDistinct ==
    /\ Cardinality(StepFiles) = Len(gameplay_log)
    /\ \A n \in DOMAIN gameplay_log :
         LET entry == gameplay_log[n] IN
         /\ StepsOf(entry.episode) = 0..(Cardinality(StepsOf(entry.episode)) - 1)
         /\ entry.step > 0 =>
               /\ n > 1
               /\ gameplay_log[n - 1].episode = entry.episode
               /\ gameplay_log[n - 1].step = entry.step - 1

C30_Witness ==
    /\ pc = "done"
    /\ Len(gameplay_log) = max_seconds
    /\ gameplay_log[1].episode < gameplay_log[max_seconds].episode
    /\ gameplay_log[max_seconds].step = 0

=============================================================================
